---- MODULE Spec2Model ----
(***************************************************************************)
(* Address Conflict Detection engine of                                    *)
(* components/lwip/lwip/src/core/ipv4/acd.c (lwIP ACD, RFC 5227, with the  *)
(* OpENer EtherNet/IP modifications): the per-interface list of struct acd *)
(* clients, acd_add / acd_remove / acd_start / acd_stop,                   *)
(* acd_network_changed_link_down, acd_tmr, acd_arp_reply and               *)
(* acd_netif_ip_addr_changed.                                              *)
(*                                                                         *)
(* Every entry point is one action.  What an entry point hands to its      *)
(* collaborators during the call (ARP frames to the transport, callbacks   *)
(* to the address client, data to the EtherNet/IP attribute #11 sink) is   *)
(* recorded, in call order, in the variable out; the call itself is        *)
(* recorded in op.                                                         *)
(***************************************************************************)
EXTENDS Integers, Sequences, FiniteSets, TLC

(***************************************************************************)
(* Bounds of the model                                                     *)
(***************************************************************************)
\* LWIP_RAND() outcomes explored: 0..MaxRand
MaxRand == 9
\* inbound conflicts are injected only while num_conflicts is below
\* MAX_CONFLICTS + MaxExtraConflicts
MaxExtraConflicts == 1
\* length of an observed run (acd_tmr calls after acd_start) in the timed runs
MaxClock == 230
\* number of entry-point calls in the runs with two interfaces and two clients
MaxRegCalls == 6

(***************************************************************************)
(* Universe: interfaces, clients, addresses, hardware addresses            *)
(***************************************************************************)
NULL == "NULL"
Netifs == {"en1", "en2"}
Acds == {"acd1", "acd2"}

\* IPv4 addresses, as their four octets
IP4_ADDR(a, b, c, d) == <<a, b, c, d>>
IPADDR_ANY == IP4_ADDR(0, 0, 0, 0)
IpLinkLocal == IP4_ADDR(169, 254, 1, 50)
IpRoutable == IP4_ADDR(192, 168, 1, 50)
Ips == {IPADDR_ANY, IpLinkLocal, IpRoutable}

ip4_addr_isany_val(ip) == ip = IPADDR_ANY
\* 169.254.0.0/16
ip4_addr_islinklocal(ip) == ip[1] = 169 /\ ip[2] = 254

\* hardware addresses: one per interface and one foreign station
MacForeign == "AA:BB:CC:DD:EE:01"
hwaddr == [n \in Netifs |-> IF n = "en1" THEN "30:ED:A0:E3:34:41" ELSE "30:ED:A0:E3:34:42"]
\* netif->hwaddr[0..5], as numbers
hwaddr_octets ==
  [n \in Netifs |-> IF n = "en1" THEN <<48, 237, 160, 227, 52, 65>>
                                  ELSE <<48, 237, 160, 227, 52, 66>>]
Macs == {hwaddr[n] : n \in Netifs} \cup {MacForeign}

(***************************************************************************)
(* enum acd_state_enum_t and acd_callback_enum_t                           *)
(***************************************************************************)
ACD_STATE_OFF == "OFF"
ACD_STATE_PROBE_WAIT == "PROBE_WAIT"
ACD_STATE_PROBING == "PROBING"
ACD_STATE_ANNOUNCE_WAIT == "ANNOUNCE_WAIT"
ACD_STATE_ANNOUNCING == "ANNOUNCING"
ACD_STATE_ONGOING == "ONGOING"
ACD_STATE_PASSIVE_ONGOING == "PASSIVE_ONGOING"
ACD_STATE_RATE_LIMIT == "RATE_LIMIT"
AcdStates == {ACD_STATE_OFF, ACD_STATE_PROBE_WAIT, ACD_STATE_PROBING,
              ACD_STATE_ANNOUNCE_WAIT, ACD_STATE_ANNOUNCING, ACD_STATE_ONGOING,
              ACD_STATE_PASSIVE_ONGOING, ACD_STATE_RATE_LIMIT}

\* err_t values and the result of a void function
ERR_OK == "ERR_OK"
VOID == "void"

\* callback functions a caller may pass to acd_add
Callbacks == {"cb1", "cb2"}

ACD_IP_OK == "IP_OK"
ACD_RESTART_CLIENT == "RESTART_CLIENT"
ACD_DECLINE == "DECLINE"

U16 == 65536

VARIABLES
  cfg,       \* build configuration (Kconfig / lwIP options) of this run
  scope,     \* the interfaces and clients the environment of this run uses,
             \* the callback functions it passes to acd_add, the number of
             \* acd_tmr calls it makes once clock runs and the number of
             \* calls it makes in all (-1: any number)
  acd_list,  \* netif->acd_list: head of each interface's client list
  next,      \* acd->next
  acd,       \* the fields of each struct acd
  op,        \* the entry point called last, with its arguments
  out,       \* what that call handed to transport, callback and sink, in order
  calls,     \* entry-point calls made so far, in the runs that bound them
  clock,     \* acd_tmr calls since acd_start (-1: not counted)
  ipok_at,   \* timed runs: clock values at which ACD_IP_OK was delivered
  ongoing_at,\* timed runs: clock value at which ONGOING was entered (-1: not yet)
  ret,       \* what the call returned
  hist       \* timed runs: the sends and callbacks made since acd_start, in
             \* order, each with the state the client had at that moment

vars == <<cfg, scope, acd_list, next, acd, op, out, calls, clock, ipok_at, ongoing_at,
          ret, hist>>

(***************************************************************************)
(* Build configuration.  The CONFIG_OPENER_ACD_* values come from Kconfig, *)
(* ACD_TMR_INTERVAL from the lwIP options, MAX_CONFLICTS,                  *)
(* RATE_LIMIT_INTERVAL and DEFEND_INTERVAL (seconds) from                  *)
(* lwip/prot/acd.h.  UNDEFINED marks a CONFIG_ symbol that is not defined. *)
(* LWIP_RAND is 1 where the port (lwipopts.h) defines LWIP_RAND or         *)
(* LWIP_AUTOIP_RAND, UNDEFINED where it defines neither.                   *)
(***************************************************************************)
UNDEFINED == -1

\* the reference configuration: 100 ms tick, RFC 5227 numbers, no initial
\* probe wait, periodic defence every 5000 ms
CfgReference ==
  [ ACD_TMR_INTERVAL |-> 100,
    PROBE_WAIT_MS |-> 0, PROBE_MIN_MS |-> 1000, PROBE_MAX_MS |-> 2000,
    PROBE_NUM |-> 3,
    ANNOUNCE_WAIT_MS |-> 2000, ANNOUNCE_INTERVAL_MS |-> 2000, ANNOUNCE_NUM |-> 2,
    PERIODIC_DEFEND_INTERVAL_MS |-> 5000,
    MAX_CONFLICTS |-> 10, RATE_LIMIT_INTERVAL |-> 60, DEFEND_INTERVAL |-> 10,
    LWIP_RAND |-> 1 ]

\* the same with CONFIG_OPENER_ACD_PERIODIC_DEFEND_INTERVAL_MS not defined
CfgNoPeriodicOption == [CfgReference EXCEPT !.PERIODIC_DEFEND_INTERVAL_MS = UNDEFINED]

\* the same with the periodic defence disabled
CfgPeriodicOff == [CfgReference EXCEPT !.PERIODIC_DEFEND_INTERVAL_MS = 0]

\* the same numbers on a 1000 ms tick
CfgCoarse == [CfgReference EXCEPT !.ACD_TMR_INTERVAL = 1000]

\* the 1000 ms tick with the periodic defence disabled
CfgCoarsePeriodicOff == [CfgCoarse EXCEPT !.PERIODIC_DEFEND_INTERVAL_MS = 0]

\* the 1000 ms tick with two probes and three announces
CfgTwoProbes == [CfgCoarse EXCEPT !.PROBE_NUM = 2, !.ANNOUNCE_NUM = 3]

\* a quick configuration on a 1000 ms tick: one probe, one announce, waits
\* of one tick, rate limiting from the second conflict on (MAX_CONFLICTS is
\* LWIP_AUTOIP_MAX_CONFLICTS, an lwIP option)
CfgQuick ==
  [ ACD_TMR_INTERVAL |-> 1000,
    PROBE_WAIT_MS |-> 0, PROBE_MIN_MS |-> 1000, PROBE_MAX_MS |-> 1000,
    PROBE_NUM |-> 1,
    ANNOUNCE_WAIT_MS |-> 1000, ANNOUNCE_INTERVAL_MS |-> 1000, ANNOUNCE_NUM |-> 1,
    PERIODIC_DEFEND_INTERVAL_MS |-> 2000,
    MAX_CONFLICTS |-> 2, RATE_LIMIT_INTERVAL |-> 60, DEFEND_INTERVAL |-> 10,
    LWIP_RAND |-> 1 ]

\* the quick configuration on a 300 ms tick, which does not divide a second
CfgOddTick == [CfgQuick EXCEPT !.ACD_TMR_INTERVAL = 300]

\* a 500 ms tick with an initial probe wait of 1000 ms
CfgProbeWait == [CfgReference EXCEPT !.ACD_TMR_INTERVAL = 500, !.PROBE_WAIT_MS = 1000]

\* a 1000 ms tick with an initial probe wait of 2000 ms and probe intervals
\* of 1000 to 3000 ms, rate limiting from the second conflict on, on a port
\* that defines neither LWIP_RAND nor LWIP_AUTOIP_RAND
CfgHwRand ==
  [CfgCoarse EXCEPT !.PROBE_WAIT_MS = 2000, !.PROBE_MAX_MS = 3000,
                    !.MAX_CONFLICTS = 2, !.LWIP_RAND = UNDEFINED]

\* the quick configuration on such a port
CfgQuickHwRand == [CfgQuick EXCEPT !.LWIP_RAND = UNDEFINED]

\* the same on a port that defines LWIP_RAND
CfgPortRand == [CfgHwRand EXCEPT !.LWIP_RAND = 1]

(***************************************************************************)
(* Timing macros                                                           *)
(***************************************************************************)
ACD_TICKS_PER_SECOND == 1000 \div cfg.ACD_TMR_INTERVAL

\* variant: the millisecond value is used as a tick count, unconverted
OPENER_ACD_MS_TO_TICKS_Unconverted(ms) == ms % U16

OPENER_ACD_MS_TO_TICKS(ms) ==
  IF ms = 0 THEN 0
  ELSE ((ms + (cfg.ACD_TMR_INTERVAL - 1)) \div cfg.ACD_TMR_INTERVAL) % U16

OPENER_ACD_PROBE_WAIT_TICKS == OPENER_ACD_MS_TO_TICKS(cfg.PROBE_WAIT_MS)
OPENER_ACD_PROBE_MIN_TICKS == OPENER_ACD_MS_TO_TICKS(cfg.PROBE_MIN_MS)
OPENER_ACD_PROBE_MAX_TICKS == OPENER_ACD_MS_TO_TICKS(cfg.PROBE_MAX_MS)
OPENER_ACD_ANNOUNCE_INTERVAL_TICKS == OPENER_ACD_MS_TO_TICKS(cfg.ANNOUNCE_INTERVAL_MS)
OPENER_ACD_ANNOUNCE_WAIT_TICKS == OPENER_ACD_MS_TO_TICKS(cfg.ANNOUNCE_WAIT_MS)

\* the values LWIP_RAND() (or LWIP_AUTOIP_RAND(netif)) of the port yields
RandVals == 0..MaxRand

\* variant: the number is made of the hardware address alone
LWIP_ACD_RAND_HardwareAddressOnly(n, s) ==
  IF cfg.LWIP_RAND # UNDEFINED
  THEN RandVals
  ELSE { hwaddr_octets[n][6] * 16777216 + hwaddr_octets[n][4] * 65536
         + hwaddr_octets[n][3] * 256 + hwaddr_octets[n][5] }

\* the values LWIP_ACD_RAND(netif, acd) can yield for a client with fields s:
\* what the port's function returns where it is defined, else the number
\* made of four octets of the hardware address plus sent_num (below 2^31
\* for the hardware addresses above, so the u32 sum does not wrap)
LWIP_ACD_RAND(n, s) ==
  IF cfg.LWIP_RAND # UNDEFINED
  THEN RandVals
  ELSE { hwaddr_octets[n][6] * 16777216 + hwaddr_octets[n][4] * 65536
         + hwaddr_octets[n][3] * 256 + hwaddr_octets[n][5] + s.sent_num }

ACD_RANDOM_PROBE_WAIT(r) ==
  IF cfg.PROBE_WAIT_MS = 0 THEN 0
  ELSE r % (IF OPENER_ACD_PROBE_WAIT_TICKS > 0 THEN OPENER_ACD_PROBE_WAIT_TICKS ELSE 1)

\* variant: the random part is added to the maximum interval
ACD_RANDOM_PROBE_INTERVAL_MaxAdded(r) ==
  IF OPENER_ACD_PROBE_MAX_TICKS > OPENER_ACD_PROBE_MIN_TICKS
  THEN (r % (OPENER_ACD_PROBE_MAX_TICKS - OPENER_ACD_PROBE_MIN_TICKS))
       + OPENER_ACD_PROBE_MAX_TICKS
  ELSE OPENER_ACD_PROBE_MIN_TICKS

\* variant: the random part alone, without the minimum interval added
ACD_RANDOM_PROBE_INTERVAL_NoMin(r) ==
  IF OPENER_ACD_PROBE_MAX_TICKS > OPENER_ACD_PROBE_MIN_TICKS
  THEN r % (OPENER_ACD_PROBE_MAX_TICKS - OPENER_ACD_PROBE_MIN_TICKS)
  ELSE 0

ACD_RANDOM_PROBE_INTERVAL(r) ==
  IF OPENER_ACD_PROBE_MAX_TICKS > OPENER_ACD_PROBE_MIN_TICKS
  THEN (r % (OPENER_ACD_PROBE_MAX_TICKS - OPENER_ACD_PROBE_MIN_TICKS))
       + OPENER_ACD_PROBE_MIN_TICKS
  ELSE OPENER_ACD_PROBE_MIN_TICKS

ACD_ANNOUNCE_WAIT_TICKS_VALUE == OPENER_ACD_ANNOUNCE_WAIT_TICKS
ACD_ANNOUNCE_INTERVAL_TICKS_VALUE ==
  IF OPENER_ACD_ANNOUNCE_INTERVAL_TICKS > 0 THEN OPENER_ACD_ANNOUNCE_INTERVAL_TICKS ELSE 1

ACD_PERIODIC_DEFEND_INTERVAL_TICKS ==
  IF cfg.PERIODIC_DEFEND_INTERVAL_MS # UNDEFINED
  THEN OPENER_ACD_MS_TO_TICKS(cfg.PERIODIC_DEFEND_INTERVAL_MS)
  ELSE cfg.DEFEND_INTERVAL * ACD_TICKS_PER_SECOND

RATE_LIMIT_TICKS == (cfg.RATE_LIMIT_INTERVAL * ACD_TICKS_PER_SECOND) % U16
DEFEND_TICKS == (cfg.DEFEND_INTERVAL * ACD_TICKS_PER_SECOND) % U16

(***************************************************************************)
(* What a call hands to its collaborators                                  *)
(***************************************************************************)
\* Every record carries, in at, the fields the client has at the moment
\* of the call.
\* etharp_acd_probe(netif, &acd->ipaddr) made for client a, and its result
EvProbe(n, a, s, ok) ==
  [kind |-> "probe", netif |-> n, acd |-> a, ip |-> s.ipaddr, ok |-> ok, at |-> s]
\* etharp_acd_announce(netif, &acd->ipaddr) made for client a, and its result
EvAnnounce(n, a, s, ok) ==
  [kind |-> "announce", netif |-> n, acd |-> a, ip |-> s.ipaddr, ok |-> ok, at |-> s]
\* acd->acd_conflict_callback(netif, what), of client a
EvCallback(n, a, s, what) ==
  [kind |-> "callback", netif |-> n, acd |-> a, what |-> what, at |-> s]
\* CipTcpIpSetLastAcdMac(hdr->shwaddr.addr), in the pass for client a
EvSinkMac(a, s, mac) == [kind |-> "sink_mac", acd |-> a, mac |-> mac, at |-> s]
\* CipTcpIpSetLastAcdRawData(hdr, sizeof(struct etharp_hdr))
EvSinkRaw(a, s, hdr) == [kind |-> "sink_raw", acd |-> a, hdr |-> hdr, at |-> s]

\* a step of one client: its fields afterwards and what was handed out
Result(s, ev) == [s |-> s, ev |-> ev]

\* a zeroed struct acd
AcdZero ==
  [ ipaddr |-> IPADDR_ANY, state |-> ACD_STATE_OFF, sent_num |-> 0, ttw |-> 0,
    lastconflict |-> 0, num_conflicts |-> 0, acd_conflict_callback |-> NULL ]


(***************************************************************************)
(* acd_stop, acd_restart, acd_handle_arp_conflict, acd_put_in_passive_mode *)
(* on the fields s of client a of interface n                              *)
(***************************************************************************)
\* variant: stopping also clears the countdown
acd_stop_ClearsTtw(s) == [s EXCEPT !.state = ACD_STATE_OFF, !.ttw = 0]

acd_stop(s) == [s EXCEPT !.state = ACD_STATE_OFF]

\* variant: rate limiting starts once num_conflicts has passed MAX_CONFLICTS
acd_restart_AboveMax(n, a, s) ==
  LET s1 == [s EXCEPT !.num_conflicts = (@ + 1) % U16]
      decline == <<EvCallback(n, a, s1, ACD_DECLINE)>>
  IN  IF s1.num_conflicts > cfg.MAX_CONFLICTS
      THEN Result([s1 EXCEPT !.state = ACD_STATE_RATE_LIMIT, !.ttw = RATE_LIMIT_TICKS],
                  decline)
      ELSE Result(acd_stop(s1),
                  decline \o <<EvCallback(n, a, acd_stop(s1), ACD_RESTART_CLIENT)>>)

\* variant: below MAX_CONFLICTS the client is not stopped
acd_restart_NoStop(n, a, s) ==
  LET s1 == [s EXCEPT !.num_conflicts = (@ + 1) % U16]
      decline == <<EvCallback(n, a, s1, ACD_DECLINE)>>
  IN  IF s1.num_conflicts >= cfg.MAX_CONFLICTS
      THEN Result([s1 EXCEPT !.state = ACD_STATE_RATE_LIMIT, !.ttw = RATE_LIMIT_TICKS],
                  decline)
      ELSE Result(s1, decline \o <<EvCallback(n, a, s1, ACD_RESTART_CLIENT)>>)

\* variant: RESTART_CLIENT is delivered before DECLINE
acd_restart_RestartBeforeDecline(n, a, s) ==
  LET s1 == [s EXCEPT !.num_conflicts = (@ + 1) % U16]
      decline == <<EvCallback(n, a, s1, ACD_DECLINE)>>
  IN  IF s1.num_conflicts >= cfg.MAX_CONFLICTS
      THEN Result([s1 EXCEPT !.state = ACD_STATE_RATE_LIMIT, !.ttw = RATE_LIMIT_TICKS],
                  decline)
      ELSE Result(acd_stop(s1),
                  <<EvCallback(n, a, acd_stop(s1), ACD_RESTART_CLIENT)>> \o decline)

acd_restart(n, a, s) ==
  LET s1 == [s EXCEPT !.num_conflicts = (@ + 1) % U16]
      decline == <<EvCallback(n, a, s1, ACD_DECLINE)>>
  IN  IF s1.num_conflicts >= cfg.MAX_CONFLICTS
      THEN Result([s1 EXCEPT !.state = ACD_STATE_RATE_LIMIT, !.ttw = RATE_LIMIT_TICKS],
                  decline)
      ELSE Result(acd_stop(s1),
                  decline \o <<EvCallback(n, a, acd_stop(s1), ACD_RESTART_CLIENT)>>)

\* variant: every conflict is defended, whatever lastconflict is
acd_handle_arp_conflict_AlwaysDefend(n, a, s, ok) ==
  IF s.state = ACD_STATE_PASSIVE_ONGOING
  THEN Result(acd_stop(s), <<EvCallback(n, a, acd_stop(s), ACD_DECLINE)>>)
  ELSE Result([s EXCEPT !.lastconflict = DEFEND_TICKS],
              <<EvAnnounce(n, a, s, ok)>>)

\* ok: the result of etharp_acd_announce, should it be called
acd_handle_arp_conflict(n, a, s, ok) ==
  IF s.state = ACD_STATE_PASSIVE_ONGOING
  THEN Result(acd_stop(s), <<EvCallback(n, a, acd_stop(s), ACD_DECLINE)>>)
  ELSE IF s.lastconflict > 0
       THEN acd_restart(n, a, s)
       ELSE Result([s EXCEPT !.lastconflict = DEFEND_TICKS],
                   <<EvAnnounce(n, a, s, ok)>>)

\* variant: a stopped client is also told to restart
acd_put_in_passive_mode_RestartsClient(n, a, s) ==
  CASE s.state \in {ACD_STATE_PROBE_WAIT, ACD_STATE_PROBING,
                    ACD_STATE_ANNOUNCE_WAIT, ACD_STATE_RATE_LIMIT} ->
         Result(acd_stop(s), <<EvCallback(n, a, acd_stop(s), ACD_DECLINE),
                               EvCallback(n, a, acd_stop(s), ACD_RESTART_CLIENT)>>)
    [] s.state \in {ACD_STATE_ANNOUNCING, ACD_STATE_ONGOING} ->
         Result([s EXCEPT !.state = ACD_STATE_PASSIVE_ONGOING], <<>>)
    [] OTHER -> Result(s, <<>>)

\* variant: a client waiting to announce is demoted like an announcing one
acd_put_in_passive_mode_DemotesAnnounceWait(n, a, s) ==
  CASE s.state \in {ACD_STATE_PROBE_WAIT, ACD_STATE_PROBING, ACD_STATE_RATE_LIMIT} ->
         Result(acd_stop(s), <<EvCallback(n, a, acd_stop(s), ACD_DECLINE)>>)
    [] s.state \in {ACD_STATE_ANNOUNCE_WAIT, ACD_STATE_ANNOUNCING, ACD_STATE_ONGOING} ->
         Result([s EXCEPT !.state = ACD_STATE_PASSIVE_ONGOING], <<>>)
    [] OTHER -> Result(s, <<>>)

\* variant: ANNOUNCING and ONGOING are stopped and declined like the probing
\* states
acd_put_in_passive_mode_StopOngoing(n, a, s) ==
  IF s.state \in {ACD_STATE_OFF, ACD_STATE_PASSIVE_ONGOING}
  THEN Result(s, <<>>)
  ELSE Result(acd_stop(s), <<EvCallback(n, a, acd_stop(s), ACD_DECLINE)>>)

acd_put_in_passive_mode(n, a, s) ==
  CASE s.state \in {ACD_STATE_PROBE_WAIT, ACD_STATE_PROBING,
                    ACD_STATE_ANNOUNCE_WAIT, ACD_STATE_RATE_LIMIT} ->
         Result(acd_stop(s), <<EvCallback(n, a, acd_stop(s), ACD_DECLINE)>>)
    [] s.state \in {ACD_STATE_ANNOUNCING, ACD_STATE_ONGOING} ->
         Result([s EXCEPT !.state = ACD_STATE_PASSIVE_ONGOING], <<>>)
    [] OTHER -> Result(s, <<>>)

(***************************************************************************)
(* acd_tmr: the body of the loop, for client a of interface n.             *)
(* r is the value LWIP_ACD_RAND yields if it is drawn, ok the result of    *)
(* the ARP send if one is made.                                            *)
(***************************************************************************)
\* variant: the cooldown runs only while the address is held
TmrLastconflict_OnlyOngoing(s) ==
  [s EXCEPT !.lastconflict = IF @ > 0 /\ s.state = ACD_STATE_ONGOING THEN @ - 1 ELSE @]

TmrLastconflict(s) == [s EXCEPT !.lastconflict = IF @ > 0 THEN @ - 1 ELSE @]

\* variant: ttw is decremented without the test for 0
TmrTtw_Unguarded(s) == [s EXCEPT !.ttw = (@ - 1) % U16]

TmrTtw(s) == [s EXCEPT !.ttw = IF @ > 0 THEN @ - 1 ELSE @]

\* variant: the probe is sent while one tick of the wait is still left
TmrProbe_OneTickEarly(n, a, s, r, ok) ==
  IF s.ttw <= 1
  THEN LET s1 == [s EXCEPT !.state = ACD_STATE_PROBING, !.sent_num = (@ + 1) % U16]
           ev == <<EvProbe(n, a, [s EXCEPT !.state = ACD_STATE_PROBING], ok)>>
       IN  IF s1.sent_num >= cfg.PROBE_NUM
           THEN Result([s1 EXCEPT !.state = ACD_STATE_ANNOUNCE_WAIT,
                                  !.sent_num = 0,
                                  !.ttw = ACD_ANNOUNCE_WAIT_TICKS_VALUE], ev)
           ELSE Result([s1 EXCEPT !.ttw = ACD_RANDOM_PROBE_INTERVAL(r) % U16], ev)
  ELSE Result(s, <<>>)

\* variant: a probe whose send failed is not counted and is sent again on
\* the next tick
TmrProbe_RetryFailedSend(n, a, s, r, ok) ==
  IF s.ttw = 0
  THEN LET s0 == [s EXCEPT !.state = ACD_STATE_PROBING]
           s1 == [s0 EXCEPT !.sent_num = (@ + 1) % U16]
           ev == <<EvProbe(n, a, s0, ok)>>
       IN  IF ~ok THEN Result(s0, ev)
           ELSE IF s1.sent_num >= cfg.PROBE_NUM
           THEN Result([s1 EXCEPT !.state = ACD_STATE_ANNOUNCE_WAIT,
                                  !.sent_num = 0,
                                  !.ttw = ACD_ANNOUNCE_WAIT_TICKS_VALUE], ev)
           ELSE Result([s1 EXCEPT !.ttw = ACD_RANDOM_PROBE_INTERVAL(r) % U16], ev)
  ELSE Result(s, <<>>)

\* variant: the probes end when sent_num has passed PROBE_NUM
TmrProbe_OneProbeMore(n, a, s, r, ok) ==
  IF s.ttw = 0
  THEN LET s1 == [s EXCEPT !.state = ACD_STATE_PROBING, !.sent_num = (@ + 1) % U16]
           ev == <<EvProbe(n, a, [s EXCEPT !.state = ACD_STATE_PROBING], ok)>>
       IN  IF s1.sent_num > cfg.PROBE_NUM
           THEN Result([s1 EXCEPT !.state = ACD_STATE_ANNOUNCE_WAIT,
                                  !.sent_num = 0,
                                  !.ttw = ACD_ANNOUNCE_WAIT_TICKS_VALUE], ev)
           ELSE Result([s1 EXCEPT !.ttw = ACD_RANDOM_PROBE_INTERVAL(r) % U16], ev)
  ELSE Result(s, <<>>)

TmrProbe(n, a, s, r, ok) ==
  IF s.ttw = 0
  THEN LET s1 == [s EXCEPT !.state = ACD_STATE_PROBING, !.sent_num = (@ + 1) % U16]
           ev == <<EvProbe(n, a, [s EXCEPT !.state = ACD_STATE_PROBING], ok)>>
       IN  IF s1.sent_num >= cfg.PROBE_NUM
           THEN Result([s1 EXCEPT !.state = ACD_STATE_ANNOUNCE_WAIT,
                                  !.sent_num = 0,
                                  !.ttw = ACD_ANNOUNCE_WAIT_TICKS_VALUE], ev)
           ELSE Result([s1 EXCEPT !.ttw = ACD_RANDOM_PROBE_INTERVAL(r) % U16], ev)
  ELSE Result(s, <<>>)

\* variant: num_conflicts is kept when the announcing starts
TmrAnnounce_KeepsConflictCount(n, a, s, ok) ==
  IF s.ttw = 0
  THEN LET s1 == IF s.sent_num = 0
                 THEN [s EXCEPT !.state = ACD_STATE_ANNOUNCING]
                 ELSE s
           s2 == [s1 EXCEPT !.ttw = ACD_ANNOUNCE_INTERVAL_TICKS_VALUE,
                            !.sent_num = (@ + 1) % U16]
           ev == <<EvAnnounce(n, a, s1, ok)>>
           s3 == [s2 EXCEPT !.state = ACD_STATE_ONGOING,
                            !.sent_num = 0,
                            !.ttw = ACD_PERIODIC_DEFEND_INTERVAL_TICKS % U16]
       IN  IF s2.sent_num >= cfg.ANNOUNCE_NUM
           THEN Result(s3, ev \o <<EvCallback(n, a, s3, ACD_IP_OK)>>)
           ELSE Result(s2, ev)
  ELSE Result(s, <<>>)

\* variant: ACD_IP_OK is delivered with every announce
TmrAnnounce_IpOkEveryAnnounce(n, a, s, ok) ==
  IF s.ttw = 0
  THEN LET s1 == IF s.sent_num = 0
                 THEN [s EXCEPT !.state = ACD_STATE_ANNOUNCING, !.num_conflicts = 0]
                 ELSE s
           s2 == [s1 EXCEPT !.ttw = ACD_ANNOUNCE_INTERVAL_TICKS_VALUE,
                            !.sent_num = (@ + 1) % U16]
           s3 == [s2 EXCEPT !.state = ACD_STATE_ONGOING,
                            !.sent_num = 0,
                            !.ttw = ACD_PERIODIC_DEFEND_INTERVAL_TICKS % U16]
       IN  IF s2.sent_num >= cfg.ANNOUNCE_NUM
           THEN Result(s3, <<EvAnnounce(n, a, s1, ok), EvCallback(n, a, s3, ACD_IP_OK)>>)
           ELSE Result(s2, <<EvAnnounce(n, a, s1, ok), EvCallback(n, a, s2, ACD_IP_OK)>>)
  ELSE Result(s, <<>>)

TmrAnnounce(n, a, s, ok) ==
  IF s.ttw = 0
  THEN LET s1 == IF s.sent_num = 0
                 THEN [s EXCEPT !.state = ACD_STATE_ANNOUNCING, !.num_conflicts = 0]
                 ELSE s
           s2 == [s1 EXCEPT !.ttw = ACD_ANNOUNCE_INTERVAL_TICKS_VALUE,
                            !.sent_num = (@ + 1) % U16]
           ev == <<EvAnnounce(n, a, s1, ok)>>
           s3 == [s2 EXCEPT !.state = ACD_STATE_ONGOING,
                            !.sent_num = 0,
                            !.ttw = ACD_PERIODIC_DEFEND_INTERVAL_TICKS % U16]
       IN  IF s2.sent_num >= cfg.ANNOUNCE_NUM
           THEN Result(s3, ev \o <<EvCallback(n, a, s3, ACD_IP_OK)>>)
           ELSE Result(s2, ev)
  ELSE Result(s, <<>>)

\* variant: the periodic probe is re-armed with the defend interval
TmrOngoing_DefendInterval(n, a, s, ok) ==
  IF (cfg.PERIODIC_DEFEND_INTERVAL_MS = UNDEFINED \/ cfg.PERIODIC_DEFEND_INTERVAL_MS > 0)
     /\ s.ttw = 0
  THEN Result([s EXCEPT !.ttw = DEFEND_TICKS], <<EvProbe(n, a, s, ok)>>)
  ELSE Result(s, <<>>)

TmrOngoing(n, a, s, ok) ==
  IF (cfg.PERIODIC_DEFEND_INTERVAL_MS = UNDEFINED \/ cfg.PERIODIC_DEFEND_INTERVAL_MS > 0)
     /\ s.ttw = 0
  THEN Result([s EXCEPT !.ttw = ACD_PERIODIC_DEFEND_INTERVAL_TICKS % U16],
              <<EvProbe(n, a, s, ok)>>)
  ELSE Result(s, <<>>)

\* variant: the restart is delivered without waiting for ttw to run out
TmrRateLimit_Immediate(n, a, s) ==
  Result(acd_stop(s), <<EvCallback(n, a, acd_stop(s), ACD_RESTART_CLIENT)>>)

TmrRateLimit(n, a, s) ==
  IF s.ttw = 0
  THEN Result(acd_stop(s), <<EvCallback(n, a, acd_stop(s), ACD_RESTART_CLIENT)>>)
  ELSE Result(s, <<>>)

\* variant: a client in passive mode that has announces left goes on
\* announcing
TmrClient_PassiveKeepsAnnouncing(n, a, s0, r, ok) ==
  LET s == TmrTtw(TmrLastconflict(s0))
  IN  CASE s.state \in {ACD_STATE_PROBE_WAIT, ACD_STATE_PROBING} -> TmrProbe(n, a, s, r, ok)
        [] s.state \in {ACD_STATE_ANNOUNCE_WAIT, ACD_STATE_ANNOUNCING} -> TmrAnnounce(n, a, s, ok)
        [] s.state = ACD_STATE_PASSIVE_ONGOING /\ s.sent_num > 0 -> TmrAnnounce(n, a, s, ok)
        [] s.state = ACD_STATE_ONGOING -> TmrOngoing(n, a, s, ok)
        [] s.state = ACD_STATE_RATE_LIMIT -> TmrRateLimit(n, a, s)
        [] OTHER -> Result(s, <<>>)

TmrClient(n, a, s0, r, ok) ==
  LET s == TmrTtw(TmrLastconflict(s0))
  IN  CASE s.state \in {ACD_STATE_PROBE_WAIT, ACD_STATE_PROBING} -> TmrProbe(n, a, s, r, ok)
        [] s.state \in {ACD_STATE_ANNOUNCE_WAIT, ACD_STATE_ANNOUNCING} -> TmrAnnounce(n, a, s, ok)
        [] s.state = ACD_STATE_ONGOING -> TmrOngoing(n, a, s, ok)
        [] s.state = ACD_STATE_RATE_LIMIT -> TmrRateLimit(n, a, s)
        [] OTHER -> Result(s, <<>>)

\* the outcomes of the loop body over every LWIP_ACD_RAND value and send
\* result; LWIP_ACD_RAND is drawn once sent_num has been incremented
TmrClientOutcomes(n, a, s0) ==
  {TmrClient(n, a, s0, r, ok) :
     r \in LWIP_ACD_RAND(n, [s0 EXCEPT !.sent_num = (@ + 1) % U16]), ok \in BOOLEAN}

(***************************************************************************)
(* acd_arp_reply: the body of the loop, for client a of interface n and    *)
(* the ARP header hdr = [sipaddr, shwaddr, dipaddr]                        *)
(***************************************************************************)
\* variant: a probe for the address is a conflict whatever its sender MAC
ProbeConflict_AnyProbeSender(n, s, hdr) ==
  \/ (hdr.sipaddr = s.ipaddr /\ hwaddr[n] # hdr.shwaddr)
  \/ (ip4_addr_isany_val(hdr.sipaddr) /\ hdr.dipaddr = s.ipaddr)

\* RFC 5227 2.1.1: the address is in use, or someone else is probing it
ProbeConflict(n, s, hdr) ==
  \/ (hdr.sipaddr = s.ipaddr /\ hwaddr[n] # hdr.shwaddr)
  \/ (ip4_addr_isany_val(hdr.sipaddr) /\ hdr.dipaddr = s.ipaddr
      /\ hwaddr[n] # hdr.shwaddr)

\* variant: a foreign probe for the address is a conflict after the probe
\* phase as well
OngoingConflict_AlsoProbes(n, s, hdr) ==
  \/ (hdr.sipaddr = s.ipaddr /\ hwaddr[n] # hdr.shwaddr)
  \/ (ip4_addr_isany_val(hdr.sipaddr) /\ hdr.dipaddr = s.ipaddr
      /\ hwaddr[n] # hdr.shwaddr)

\* RFC 5227 2.4: someone is using our address
OngoingConflict(n, s, hdr) ==
  hdr.sipaddr = s.ipaddr /\ hwaddr[n] # hdr.shwaddr

SinkCapture(a, s, hdr) == <<EvSinkMac(a, s, hdr.shwaddr), EvSinkRaw(a, s, hdr)>>

\* variant: the sink is called after the conflict has been handled
ArpClient_SinkAfterHandling(n, a, s, hdr, ok) ==
  CASE s.state \in {ACD_STATE_PROBE_WAIT, ACD_STATE_PROBING, ACD_STATE_ANNOUNCE_WAIT} ->
         IF ProbeConflict(n, s, hdr)
         THEN LET res == acd_restart(n, a, s)
              IN  Result(res.s, res.ev \o SinkCapture(a, res.s, hdr))
         ELSE Result(s, <<>>)
    [] s.state \in {ACD_STATE_ANNOUNCING, ACD_STATE_ONGOING, ACD_STATE_PASSIVE_ONGOING} ->
         IF OngoingConflict(n, s, hdr)
         THEN LET res == acd_handle_arp_conflict(n, a, s, ok)
              IN  Result(res.s, res.ev \o SinkCapture(a, res.s, hdr))
         ELSE Result(s, <<>>)
    [] OTHER -> Result(s, <<>>)

\* variant: a client in OFF is examined like one holding its address
ArpClient_OffExamined(n, a, s, hdr, ok) ==
  CASE s.state \in {ACD_STATE_PROBE_WAIT, ACD_STATE_PROBING, ACD_STATE_ANNOUNCE_WAIT} ->
         IF ProbeConflict(n, s, hdr)
         THEN LET res == acd_restart(n, a, s)
              IN  Result(res.s, SinkCapture(a, s, hdr) \o res.ev)
         ELSE Result(s, <<>>)
    [] s.state \in {ACD_STATE_ANNOUNCING, ACD_STATE_ONGOING, ACD_STATE_PASSIVE_ONGOING,
                    ACD_STATE_OFF} ->
         IF OngoingConflict(n, s, hdr)
         THEN LET res == acd_handle_arp_conflict(n, a, s, ok)
              IN  Result(res.s, SinkCapture(a, s, hdr) \o res.ev)
         ELSE Result(s, <<>>)
    [] OTHER -> Result(s, <<>>)

\* variant: a client in RATE_LIMIT is examined like a probing one
ArpClient_RateLimitExamined(n, a, s, hdr, ok) ==
  CASE s.state \in {ACD_STATE_PROBE_WAIT, ACD_STATE_PROBING, ACD_STATE_ANNOUNCE_WAIT,
                    ACD_STATE_RATE_LIMIT} ->
         IF ProbeConflict(n, s, hdr)
         THEN LET res == acd_restart(n, a, s)
              IN  Result(res.s, SinkCapture(a, s, hdr) \o res.ev)
         ELSE Result(s, <<>>)
    [] s.state \in {ACD_STATE_ANNOUNCING, ACD_STATE_ONGOING, ACD_STATE_PASSIVE_ONGOING} ->
         IF OngoingConflict(n, s, hdr)
         THEN LET res == acd_handle_arp_conflict(n, a, s, ok)
              IN  Result(res.s, SinkCapture(a, s, hdr) \o res.ev)
         ELSE Result(s, <<>>)
    [] OTHER -> Result(s, <<>>)

ArpClient(n, a, s, hdr, ok) ==
  CASE s.state \in {ACD_STATE_PROBE_WAIT, ACD_STATE_PROBING, ACD_STATE_ANNOUNCE_WAIT} ->
         IF ProbeConflict(n, s, hdr)
         THEN LET res == acd_restart(n, a, s)
              IN  Result(res.s, SinkCapture(a, s, hdr) \o res.ev)
         ELSE Result(s, <<>>)
    [] s.state \in {ACD_STATE_ANNOUNCING, ACD_STATE_ONGOING, ACD_STATE_PASSIVE_ONGOING} ->
         IF OngoingConflict(n, s, hdr)
         THEN LET res == acd_handle_arp_conflict(n, a, s, ok)
              IN  Result(res.s, SinkCapture(a, s, hdr) \o res.ev)
         ELSE Result(s, <<>>)
    [] OTHER -> Result(s, <<>>)

ArpClientOutcomes(n, a, s, hdr) == {ArpClient(n, a, s, hdr, ok) : ok \in BOOLEAN}


(***************************************************************************)
(* The client list of an interface (ACD_FOREACH)                           *)
(***************************************************************************)
RECURSIVE ListFrom(_, _)
ListFrom(a, fuel) ==
  IF a = NULL \/ fuel = 0 THEN <<>> ELSE <<a>> \o ListFrom(next[a], fuel - 1)

\* the clients ACD_FOREACH(acd, netif->acd_list) visits, in order
AcdList(n) == ListFrom(acd_list[n], Cardinality(Acds))

OnList(n, a) == \E i \in 1..Len(AcdList(n)) : AcdList(n)[i] = a

\* NETIF_FOREACH order
NetifOrder == <<"en1", "en2">>

\* the loops of acd_tmr and acd_arp_reply: every outcome of running step
\* over the clients of lst in order, from the fields and output in st
RECURSIVE TmrLoop(_, _, _)
TmrLoop(n, lst, st) ==
  IF lst = <<>> THEN {st}
  ELSE LET a == Head(lst)
       IN  UNION { TmrLoop(n, Tail(lst),
                           [acd |-> [st.acd EXCEPT ![a] = res.s], ev |-> st.ev \o res.ev])
                   : res \in TmrClientOutcomes(n, a, st.acd[a]) }

RECURSIVE TmrNetifs(_, _)
TmrNetifs(i, sts) ==
  IF i > Len(NetifOrder) THEN sts
  ELSE TmrNetifs(i + 1, UNION { TmrLoop(NetifOrder[i], AcdList(NetifOrder[i]), st) : st \in sts })

\* variant: once the list is done, the clients that are not on the
\* interface's list are examined as well
RECURSIVE ArpLoop_AlsoOtherLists(_, _, _, _)
ArpLoop_AlsoOtherLists(n, lst, hdr, st) ==
  IF lst = <<>>
  THEN {[acd |-> [a \in Acds |-> IF OnList(n, a) THEN st.acd[a]
                                 ELSE ArpClient(n, a, st.acd[a], hdr, TRUE).s],
         ev |-> st.ev]}
  ELSE LET a == Head(lst)
       IN  UNION { ArpLoop_AlsoOtherLists(n, Tail(lst), hdr,
                           [acd |-> [st.acd EXCEPT ![a] = res.s], ev |-> st.ev \o res.ev])
                   : res \in ArpClientOutcomes(n, a, st.acd[a], hdr) }

RECURSIVE ArpLoop(_, _, _, _)
ArpLoop(n, lst, hdr, st) ==
  IF lst = <<>> THEN {st}
  ELSE LET a == Head(lst)
       IN  UNION { ArpLoop(n, Tail(lst), hdr,
                           [acd |-> [st.acd EXCEPT ![a] = res.s], ev |-> st.ev \o res.ev])
                   : res \in ArpClientOutcomes(n, a, st.acd[a], hdr) }

\* variant: every client is stopped, whatever list it is on
StopLoop_EveryClient(lst, f) == [a \in Acds |-> acd_stop(f[a])]

RECURSIVE StopLoop(_, _)
StopLoop(lst, f) ==
  IF lst = <<>> THEN f
  ELSE StopLoop(Tail(lst), [f EXCEPT ![Head(lst)] = acd_stop(@)])

\* variant: every client of the interface is put in passive mode, whatever
\* its address
RECURSIVE AddrChangedLoop_EveryClient(_, _, _, _, _)
AddrChangedLoop_EveryClient(n, lst, old_addr, new_addr, st) ==
  IF lst = <<>> THEN st
  ELSE LET a == Head(lst)
           res == IF ip4_addr_islinklocal(old_addr) /\ ~ip4_addr_islinklocal(new_addr)
                  THEN acd_put_in_passive_mode(n, a, st.acd[a])
                  ELSE Result(st.acd[a], <<>>)
       IN  AddrChangedLoop_EveryClient(n, Tail(lst), old_addr, new_addr,
                           [acd |-> [st.acd EXCEPT ![a] = res.s], ev |-> st.ev \o res.ev])

RECURSIVE AddrChangedLoop(_, _, _, _, _)
AddrChangedLoop(n, lst, old_addr, new_addr, st) ==
  IF lst = <<>> THEN st
  ELSE LET a == Head(lst)
           res == IF st.acd[a].ipaddr = old_addr
                     /\ ip4_addr_islinklocal(old_addr) /\ ~ip4_addr_islinklocal(new_addr)
                  THEN acd_put_in_passive_mode(n, a, st.acd[a])
                  ELSE Result(st.acd[a], <<>>)
       IN  AddrChangedLoop(n, Tail(lst), old_addr, new_addr,
                           [acd |-> [st.acd EXCEPT ![a] = res.s], ev |-> st.ev \o res.ev])

(***************************************************************************)
(* The ARP headers the environment delivers                                *)
(***************************************************************************)
Hdrs(n) == [sipaddr : Ips, shwaddr : {hwaddr[n], MacForeign},
            dipaddr : Ips \ {IPADDR_ANY}]

\* would acd_arp_reply take hdr as a conflict for a client with fields s
IsConflict(n, s, hdr) ==
  \/ s.state \in {ACD_STATE_PROBE_WAIT, ACD_STATE_PROBING, ACD_STATE_ANNOUNCE_WAIT}
     /\ ProbeConflict(n, s, hdr)
  \/ s.state \in {ACD_STATE_ANNOUNCING, ACD_STATE_ONGOING, ACD_STATE_PASSIVE_ONGOING}
     /\ OngoingConflict(n, s, hdr)

(***************************************************************************)
(* Initial state: empty lists, zeroed clients                              *)
(***************************************************************************)
InitCommon ==
  /\ acd_list = [n \in Netifs |-> NULL]
  /\ next = [a \in Acds |-> NULL]
  /\ acd = [a \in Acds |-> AcdZero]
  /\ op = "init"
  /\ out = <<>>
  /\ calls = 0
  /\ ipok_at = <<>>
  /\ ongoing_at = -1
  /\ ret = "none"
  /\ hist = <<>>

Untimed == UNCHANGED <<clock, ipok_at, ongoing_at, hist>>
\* one more call, within the number of calls of this run
Called ==
  IF scope.calls >= 0
  THEN calls < scope.calls /\ calls' = calls + 1
  ELSE UNCHANGED calls
Config == UNCHANGED <<cfg, scope>> /\ Called

(***************************************************************************)
(* Entry points                                                            *)
(***************************************************************************)
\* variant: the callback is set only when the client is put on the list
Add_CallbackOnlyWhenLinked(n, a, cb) ==
  /\ \A m \in Netifs \ {n} : ~OnList(m, a)
  /\ IF OnList(n, a)
     THEN UNCHANGED <<acd, acd_list, next>>
     ELSE /\ acd' = [acd EXCEPT ![a].acd_conflict_callback = cb]
          /\ next' = [next EXCEPT ![a] = acd_list[n]]
          /\ acd_list' = [acd_list EXCEPT ![n] = a]
  /\ op' = "acd_add"
  /\ ret' = ERR_OK
  /\ out' = <<>>
  /\ UNCHANGED <<clock, ipok_at, ongoing_at, hist>>
  /\ UNCHANGED <<cfg, scope>>
  /\ IF scope.calls >= 0
     THEN calls < scope.calls /\ calls' = calls + 1
     ELSE UNCHANGED calls

\* variant: the client is put at the head of the list without the search
\* for it
Add_AlwaysLinks(n, a, cb) ==
  /\ \A m \in Netifs \ {n} : ~OnList(m, a)
  /\ acd' = [acd EXCEPT ![a].acd_conflict_callback = cb]
  /\ next' = [next EXCEPT ![a] = acd_list[n]]
  /\ acd_list' = [acd_list EXCEPT ![n] = a]
  /\ op' = "acd_add"
  /\ ret' = ERR_OK
  /\ out' = <<>>
  /\ UNCHANGED <<clock, ipok_at, ongoing_at, hist>>
  /\ UNCHANGED <<cfg, scope>>
  /\ IF scope.calls >= 0
     THEN calls < scope.calls /\ calls' = calls + 1
     ELSE UNCHANGED calls

\* acd_add(netif, acd, callback).  A struct acd has one next link: the
\* caller adds it to one interface only.
Add(n, a, cb) ==
  /\ \A m \in Netifs \ {n} : ~OnList(m, a)
  /\ acd' = [acd EXCEPT ![a].acd_conflict_callback = cb]
  /\ IF OnList(n, a)
     THEN UNCHANGED <<acd_list, next>>
     ELSE /\ next' = [next EXCEPT ![a] = acd_list[n]]
          /\ acd_list' = [acd_list EXCEPT ![n] = a]
  /\ op' = "acd_add"
  /\ ret' = ERR_OK
  /\ out' = <<>>
  /\ Untimed /\ Config

\* acd_remove(netif, acd); the client is on the list (LWIP_ASSERT otherwise)
Remove(n, a) ==
  /\ OnList(n, a)
  /\ IF acd_list[n] = a
     THEN /\ acd_list' = [acd_list EXCEPT ![n] = next[a]]
          /\ UNCHANGED next
     ELSE /\ \E prev \in Acds :
               /\ OnList(n, prev) /\ next[prev] = a
               /\ next' = [next EXCEPT ![prev] = next[a]]
          /\ UNCHANGED acd_list
  /\ op' = "acd_remove"
  /\ ret' = VOID
  /\ out' = <<>>
  /\ UNCHANGED acd
  /\ Untimed /\ Config

\* variant: starting also clears the conflict count
acd_start_ClearsConflicts(s, ipaddr, r) ==
  [s EXCEPT !.sent_num = 0, !.lastconflict = 0, !.num_conflicts = 0,
            !.ipaddr = ipaddr,
            !.state = ACD_STATE_PROBE_WAIT,
            !.ttw = ACD_RANDOM_PROBE_WAIT(r) % U16]

\* the fields acd_start leaves, r being the LWIP_ACD_RAND value
acd_start(s, ipaddr, r) ==
  [s EXCEPT !.sent_num = 0, !.lastconflict = 0, !.ipaddr = ipaddr,
            !.state = ACD_STATE_PROBE_WAIT,
            !.ttw = ACD_RANDOM_PROBE_WAIT(r) % U16]

\* acd_start(netif, acd, ipaddr) on a client added to netif
Start(n, a, ipaddr) ==
  /\ OnList(n, a)
  /\ \E s \in {acd_start(acd[a], ipaddr, r) :
                 r \in LWIP_ACD_RAND(n, [acd[a] EXCEPT !.sent_num = 0])} :
       acd' = [acd EXCEPT ![a] = s]
  /\ op' = "acd_start"
  /\ ret' = ERR_OK
  /\ out' = <<>>
  /\ UNCHANGED <<acd_list, next>>
  /\ Config

\* acd_stop(acd)
Stop(a) ==
  /\ acd' = [acd EXCEPT ![a] = acd_stop(@)]
  /\ op' = "acd_stop"
  /\ ret' = ERR_OK
  /\ out' = <<>>
  /\ UNCHANGED <<acd_list, next>>
  /\ Untimed /\ Config

\* acd_network_changed_link_down(netif)
LinkDown(n) ==
  /\ acd' = StopLoop(AcdList(n), acd)
  /\ op' = "acd_network_changed_link_down"
  /\ ret' = VOID
  /\ out' = <<>>
  /\ UNCHANGED <<acd_list, next>>
  /\ Untimed /\ Config

\* the sends and callbacks of ev, each with the state at that moment
RECURSIVE HistOf(_)
HistOf(ev) ==
  IF ev = <<>> THEN <<>>
  ELSE LET e == Head(ev)
       IN  (IF e.kind = "callback" THEN << <<e.what, e.at.state>> >>
            ELSE IF e.kind \in {"probe", "announce"} THEN << <<e.kind, e.at.state>> >>
            ELSE <<>>) \o HistOf(Tail(ev))

\* acd_tmr()
Tick ==
  /\ clock < scope.ticks
  /\ \E st \in TmrNetifs(1, {[acd |-> acd, ev |-> <<>>]}) :
       /\ acd' = st.acd
       /\ out' = st.ev
       /\ IF clock >= 0
          THEN /\ clock' = clock + 1
               /\ ipok_at' = IF \E i \in 1..Len(st.ev) :
                                  st.ev[i].kind = "callback" /\ st.ev[i].what = ACD_IP_OK
                             THEN Append(ipok_at, clock + 1) ELSE ipok_at
               /\ ongoing_at' = IF \E a \in Acds : acd[a].state # ACD_STATE_ONGOING
                                                   /\ st.acd[a].state = ACD_STATE_ONGOING
                                THEN clock + 1 ELSE ongoing_at
               /\ hist' = hist \o HistOf(st.ev)
          ELSE Untimed
  /\ op' = "acd_tmr"
  /\ ret' = VOID
  /\ UNCHANGED <<acd_list, next>>
  /\ Config

\* acd_arp_reply(netif, hdr).  Conflicts are delivered while the client's
\* num_conflicts is below MAX_CONFLICTS + MaxExtraConflicts.
ArpReply(n, hdr) ==
  /\ \A a \in Acds : (OnList(n, a) /\ IsConflict(n, acd[a], hdr))
                       => acd[a].num_conflicts < cfg.MAX_CONFLICTS + MaxExtraConflicts
  /\ \E st \in ArpLoop(n, AcdList(n), hdr, [acd |-> acd, ev |-> <<>>]) :
       /\ acd' = st.acd
       /\ out' = st.ev
  /\ op' = "acd_arp_reply"
  /\ ret' = VOID
  /\ UNCHANGED <<acd_list, next>>
  /\ Untimed /\ Config

\* acd_netif_ip_addr_changed(netif, old_addr, new_addr)
IpAddrChanged(n, old_addr, new_addr) ==
  /\ LET st == IF ip4_addr_isany_val(old_addr) \/ ip4_addr_isany_val(new_addr)
               THEN [acd |-> acd, ev |-> <<>>]
               ELSE AddrChangedLoop(n, AcdList(n), old_addr, new_addr,
                                    [acd |-> acd, ev |-> <<>>])
     IN  /\ acd' = st.acd
         /\ out' = st.ev
  /\ op' = "acd_netif_ip_addr_changed"
  /\ ret' = VOID
  /\ UNCHANGED <<acd_list, next>>
  /\ Untimed /\ Config

(***************************************************************************)
(* Callbacks that call back into the module.  acd->acd_conflict_callback   *)
(* is client code: it may call acd_start for its client before it returns. *)
(* re = [on, ip, r] is what the callback function does during one call of  *)
(* an entry point: invoked with the value re.on it calls                   *)
(* acd_start(netif, acd, re.ip), LWIP_ACD_RAND yielding re.r; invoked with *)
(* another value it only returns.  The steps below are the steps above     *)
(* with the fields read again after every callback.                        *)
(***************************************************************************)
CallbackValues == {ACD_IP_OK, ACD_RESTART_CLIENT, ACD_DECLINE}

\* acd_start(netif, acd, ipaddr) called from inside the callback; at holds
\* the fields it leaves
EvStart(n, a, s, ipaddr) ==
  [kind |-> "acd_start", netif |-> n, acd |-> a, ip |-> ipaddr, at |-> s]

\* acd->acd_conflict_callback(netif, what) for a client with fields s: the
\* fields when the callback returns and what was handed out
CallbackCall(n, a, s, what, re) ==
  IF what = re.on
  THEN LET s1 == acd_start(s, re.ip, re.r)
       IN  Result(s1, <<EvCallback(n, a, s, what), EvStart(n, a, s1, re.ip)>>)
  ELSE Result(s, <<EvCallback(n, a, s, what)>>)

\* variant: the client is stopped after RESTART_CLIENT has been delivered
acd_restart_reentrant_StopsAfterCallback(n, a, s, re) ==
  LET s1 == [s EXCEPT !.num_conflicts = (@ + 1) % U16]
      c1 == CallbackCall(n, a, s1, ACD_DECLINE, re)
  IN  IF c1.s.num_conflicts >= cfg.MAX_CONFLICTS
      THEN Result([c1.s EXCEPT !.state = ACD_STATE_RATE_LIMIT, !.ttw = RATE_LIMIT_TICKS],
                  c1.ev)
      ELSE LET c2 == CallbackCall(n, a, c1.s, ACD_RESTART_CLIENT, re)
           IN  Result(acd_stop(c2.s), c1.ev \o c2.ev)

acd_restart_reentrant(n, a, s, re) ==
  LET s1 == [s EXCEPT !.num_conflicts = (@ + 1) % U16]
      c1 == CallbackCall(n, a, s1, ACD_DECLINE, re)
  IN  IF c1.s.num_conflicts >= cfg.MAX_CONFLICTS
      THEN Result([c1.s EXCEPT !.state = ACD_STATE_RATE_LIMIT, !.ttw = RATE_LIMIT_TICKS],
                  c1.ev)
      ELSE LET c2 == CallbackCall(n, a, acd_stop(c1.s), ACD_RESTART_CLIENT, re)
           IN  Result(c2.s, c1.ev \o c2.ev)

acd_handle_arp_conflict_reentrant(n, a, s, ok, re) ==
  IF s.state = ACD_STATE_PASSIVE_ONGOING
  THEN CallbackCall(n, a, acd_stop(s), ACD_DECLINE, re)
  ELSE IF s.lastconflict > 0
       THEN acd_restart_reentrant(n, a, s, re)
       ELSE Result([s EXCEPT !.lastconflict = DEFEND_TICKS],
                   <<EvAnnounce(n, a, s, ok)>>)

TmrAnnounce_reentrant(n, a, s, ok, re) ==
  IF s.ttw = 0
  THEN LET s1 == IF s.sent_num = 0
                 THEN [s EXCEPT !.state = ACD_STATE_ANNOUNCING, !.num_conflicts = 0]
                 ELSE s
           s2 == [s1 EXCEPT !.ttw = ACD_ANNOUNCE_INTERVAL_TICKS_VALUE,
                            !.sent_num = (@ + 1) % U16]
           ev == <<EvAnnounce(n, a, s1, ok)>>
           s3 == [s2 EXCEPT !.state = ACD_STATE_ONGOING,
                            !.sent_num = 0,
                            !.ttw = ACD_PERIODIC_DEFEND_INTERVAL_TICKS % U16]
       IN  IF s2.sent_num >= cfg.ANNOUNCE_NUM
           THEN LET c == CallbackCall(n, a, s3, ACD_IP_OK, re)
                IN  Result(c.s, ev \o c.ev)
           ELSE Result(s2, ev)
  ELSE Result(s, <<>>)

TmrRateLimit_reentrant(n, a, s, re) ==
  IF s.ttw = 0
  THEN CallbackCall(n, a, acd_stop(s), ACD_RESTART_CLIENT, re)
  ELSE Result(s, <<>>)

TmrClient_reentrant(n, a, s0, r, ok, re) ==
  LET s == TmrTtw(TmrLastconflict(s0))
  IN  CASE s.state \in {ACD_STATE_PROBE_WAIT, ACD_STATE_PROBING} -> TmrProbe(n, a, s, r, ok)
        [] s.state \in {ACD_STATE_ANNOUNCE_WAIT, ACD_STATE_ANNOUNCING} ->
             TmrAnnounce_reentrant(n, a, s, ok, re)
        [] s.state = ACD_STATE_ONGOING -> TmrOngoing(n, a, s, ok)
        [] s.state = ACD_STATE_RATE_LIMIT -> TmrRateLimit_reentrant(n, a, s, re)
        [] OTHER -> Result(s, <<>>)

ArpClient_reentrant(n, a, s, hdr, ok, re) ==
  CASE s.state \in {ACD_STATE_PROBE_WAIT, ACD_STATE_PROBING, ACD_STATE_ANNOUNCE_WAIT} ->
         IF ProbeConflict(n, s, hdr)
         THEN LET res == acd_restart_reentrant(n, a, s, re)
              IN  Result(res.s, SinkCapture(a, s, hdr) \o res.ev)
         ELSE Result(s, <<>>)
    [] s.state \in {ACD_STATE_ANNOUNCING, ACD_STATE_ONGOING, ACD_STATE_PASSIVE_ONGOING} ->
         IF OngoingConflict(n, s, hdr)
         THEN LET res == acd_handle_arp_conflict_reentrant(n, a, s, ok, re)
              IN  Result(res.s, SinkCapture(a, s, hdr) \o res.ev)
         ELSE Result(s, <<>>)
    [] OTHER -> Result(s, <<>>)

RECURSIVE TmrLoop_reentrant(_, _, _, _)
TmrLoop_reentrant(n, lst, st, re) ==
  IF lst = <<>> THEN {st}
  ELSE LET a == Head(lst)
       IN  UNION { TmrLoop_reentrant(n, Tail(lst),
                     [acd |-> [st.acd EXCEPT ![a] = res.s], ev |-> st.ev \o res.ev], re)
                   : res \in { TmrClient_reentrant(n, a, st.acd[a], r, ok, re) :
                                 r \in LWIP_ACD_RAND(n, [st.acd[a] EXCEPT
                                                           !.sent_num = (@ + 1) % U16]),
                                 ok \in BOOLEAN } }

RECURSIVE TmrNetifs_reentrant(_, _, _)
TmrNetifs_reentrant(i, sts, re) ==
  IF i > Len(NetifOrder) THEN sts
  ELSE TmrNetifs_reentrant(i + 1,
         UNION { TmrLoop_reentrant(NetifOrder[i], AcdList(NetifOrder[i]), st, re)
                 : st \in sts }, re)

RECURSIVE ArpLoop_reentrant(_, _, _, _, _)
ArpLoop_reentrant(n, lst, hdr, st, re) ==
  IF lst = <<>> THEN {st}
  ELSE LET a == Head(lst)
       IN  UNION { ArpLoop_reentrant(n, Tail(lst), hdr,
                     [acd |-> [st.acd EXCEPT ![a] = res.s], ev |-> st.ev \o res.ev], re)
                   : res \in { ArpClient_reentrant(n, a, st.acd[a], hdr, ok, re) :
                                 ok \in BOOLEAN } }

\* what the callback functions may do during one call: the value they react
\* to, the address they start and the LWIP_ACD_RAND value of that acd_start
Reactions(n) ==
  [on : CallbackValues, ip : Ips \ {IPADDR_ANY},
   r : LWIP_ACD_RAND(n, AcdZero)]

\* acd_tmr() with callbacks that react as re says
TickReentrant(re) ==
  /\ clock < scope.ticks
  /\ \E st \in TmrNetifs_reentrant(1, {[acd |-> acd, ev |-> <<>>]}, re) :
       /\ acd' = st.acd
       /\ out' = st.ev
  /\ op' = "acd_tmr"
  /\ ret' = VOID
  /\ UNCHANGED <<acd_list, next>>
  /\ Untimed /\ Config

\* acd_arp_reply(netif, hdr) with callbacks that react as re says
ArpReplyReentrant(n, hdr, re) ==
  /\ \A a \in Acds : (OnList(n, a) /\ IsConflict(n, acd[a], hdr))
                       => acd[a].num_conflicts < cfg.MAX_CONFLICTS + MaxExtraConflicts
  /\ \E st \in ArpLoop_reentrant(n, AcdList(n), hdr, [acd |-> acd, ev |-> <<>>], re) :
       /\ acd' = st.acd
       /\ out' = st.ev
  /\ op' = "acd_arp_reply"
  /\ ret' = VOID
  /\ UNCHANGED <<acd_list, next>>
  /\ Untimed /\ Config

(***************************************************************************)
(* Specifications                                                          *)
(***************************************************************************)
\* every entry point, one interface with one client, 1000 ms tick, with and
\* without the periodic defence
Init ==
  /\ InitCommon
  /\ clock = -1
  /\ cfg \in {CfgCoarse, CfgCoarsePeriodicOff}
  /\ scope = [netifs |-> {"en1"}, acds |-> {"acd1"}, callbacks |-> {"cb1"},
              ticks |-> MaxClock, calls |-> -1]

AddAny == \E n \in scope.netifs, a \in scope.acds, cb \in scope.callbacks : Add(n, a, cb)
RemoveAny == \E n \in scope.netifs, a \in scope.acds : Remove(n, a)
StartAny == \E n \in scope.netifs, a \in scope.acds, ip \in Ips \ {IPADDR_ANY} :
              Start(n, a, ip) /\ Untimed
StopAny == \E a \in scope.acds : Stop(a)
LinkDownAny == \E n \in scope.netifs : LinkDown(n)
ArpReplyAny == \E n \in scope.netifs : \E hdr \in Hdrs(n) : ArpReply(n, hdr)
IpAddrChangedAny == \E n \in scope.netifs, old_addr \in Ips, new_addr \in Ips :
                      IpAddrChanged(n, old_addr, new_addr)

Next ==
  \/ AddAny
  \/ RemoveAny
  \/ StartAny
  \/ StopAny
  \/ LinkDownAny
  \/ Tick
  \/ ArpReplyAny
  \/ IpAddrChangedAny

Spec == Init /\ [][Next]_vars

\* a quiet network: the client is added, started once and then only ticked
InitTimed ==
  /\ InitCommon
  /\ clock = -1
  /\ cfg \in {CfgReference, CfgNoPeriodicOption, CfgPeriodicOff, CfgProbeWait, CfgTwoProbes}
  /\ scope = [netifs |-> {"en1"}, acds |-> {"acd1"}, callbacks |-> {"cb1"},
              ticks |-> MaxClock, calls |-> -1]

StartOnce ==
  \E n \in scope.netifs, a \in scope.acds, ip \in Ips \ {IPADDR_ANY} :
    /\ clock = -1
    /\ Start(n, a, ip)
    /\ clock' = 0
    /\ UNCHANGED <<ipok_at, ongoing_at, hist>>

NextTimed ==
  \/ AddAny
  \/ StartOnce
  \/ Tick

SpecTimed == InitTimed /\ [][NextTimed]_vars /\ WF_vars(Tick)


\* two interfaces and two clients, every entry point, MaxRegCalls calls
InitReg ==
  /\ InitCommon
  /\ clock = -1
  /\ cfg \in {CfgQuick}
  /\ scope = [netifs |-> Netifs, acds |-> Acds, callbacks |-> {"cb1"},
              ticks |-> MaxClock, calls |-> MaxRegCalls]

SpecReg == InitReg /\ [][Next]_vars

\* one interface with two clients, every entry point, MaxRegCalls calls
InitPair ==
  /\ InitCommon
  /\ clock = -1
  /\ cfg \in {CfgQuick}
  /\ scope = [netifs |-> {"en1"}, acds |-> Acds, callbacks |-> {"cb1"},
              ticks |-> MaxClock, calls |-> MaxRegCalls]

SpecPair == InitPair /\ [][Next]_vars

\* one interface, one client, two callback functions, every entry point,
\* MaxRegCalls calls
InitCb ==
  /\ InitCommon
  /\ clock = -1
  /\ cfg \in {CfgQuick}
  /\ scope = [netifs |-> {"en1"}, acds |-> {"acd1"}, callbacks |-> Callbacks,
              ticks |-> MaxClock, calls |-> MaxRegCalls]

SpecCb == InitCb /\ [][Next]_vars


\* one interface with one client, every entry point, a 300 ms tick
InitOddTick ==
  /\ InitCommon
  /\ clock = -1
  /\ cfg \in {CfgOddTick}
  /\ scope = [netifs |-> {"en1"}, acds |-> {"acd1"}, callbacks |-> {"cb1"},
              ticks |-> MaxClock, calls |-> -1]

SpecOddTick == InitOddTick /\ [][Next]_vars


\* one interface with one client, every entry point, a 1000 ms tick with an
\* initial probe wait, on a port without and on a port with LWIP_RAND
InitRand ==
  /\ InitCommon
  /\ clock = -1
  /\ cfg \in {CfgHwRand, CfgPortRand}
  /\ scope = [netifs |-> {"en1"}, acds |-> {"acd1"}, callbacks |-> {"cb1"},
              ticks |-> MaxClock, calls |-> -1]

SpecRand == InitRand /\ [][Next]_vars

\* one interface with one client whose callback may call acd_start, on a
\* port without LWIP_RAND
InitReentrant ==
  /\ InitCommon
  /\ clock = -1
  /\ cfg \in {CfgQuickHwRand, CfgHwRand}
  /\ scope = [netifs |-> {"en1"}, acds |-> {"acd1"}, callbacks |-> {"cb1"},
              ticks |-> MaxClock, calls |-> -1]

TickReentrantAny == \E n \in scope.netifs : \E re \in Reactions(n) : TickReentrant(re)
ArpReplyReentrantAny ==
  \E n \in scope.netifs : \E hdr \in Hdrs(n) : \E re \in Reactions(n) :
    ArpReplyReentrant(n, hdr, re)

NextReentrant ==
  \/ AddAny
  \/ StartAny
  \/ StopAny
  \/ IpAddrChangedAny
  \/ TickReentrantAny
  \/ ArpReplyReentrantAny

SpecReentrant == InitReentrant /\ [][NextReentrant]_vars

(***************************************************************************)
(* Reading the output of a call                                            *)
(***************************************************************************)
IsCallbackOf(e, a) == e.kind = "callback" /\ e.acd = a
IsSend(e) == e.kind \in {"probe", "announce"}
IsSendOf(e, a) == IsSend(e) /\ e.acd = a
IsSink(e) == e.kind \in {"sink_mac", "sink_raw"}

\* the callback values client a received, in order
RECURSIVE CallbackSeq(_, _)
CallbackSeq(ev, a) ==
  IF ev = <<>> THEN <<>>
  ELSE (IF IsCallbackOf(Head(ev), a) THEN <<Head(ev).what>> ELSE <<>>)
       \o CallbackSeq(Tail(ev), a)

\* the kinds of the ARP sends made, in order
RECURSIVE SendSeq(_)
SendSeq(ev) ==
  IF ev = <<>> THEN <<>>
  ELSE (IF IsSend(Head(ev)) THEN <<Head(ev).kind>> ELSE <<>>) \o SendSeq(Tail(ev))

\* the kinds of the ARP sends made for client a, in order
RECURSIVE SendSeqOf(_, _)
SendSeqOf(ev, a) ==
  IF ev = <<>> THEN <<>>
  ELSE (IF IsSendOf(Head(ev), a) THEN <<Head(ev).kind>> ELSE <<>>)
       \o SendSeqOf(Tail(ev), a)

\* the states up to the end of the announce wait (RFC 5227 2.1.1)
ProbePhase == {ACD_STATE_PROBE_WAIT, ACD_STATE_PROBING, ACD_STATE_ANNOUNCE_WAIT}

\* hdr is a conflict for client a of interface n that acd_arp_reply answers
\* with acd_restart
RestartCase(n, a, hdr) ==
  /\ \/ acd[a].state \in ProbePhase
     \/ acd[a].state \in {ACD_STATE_ANNOUNCING, ACD_STATE_ONGOING}
        /\ acd[a].lastconflict > 0
  /\ IsConflict(n, acd[a], hdr)
  /\ OnList(n, a)

\* client a is on the list of some interface
Registered(a) == \E n \in Netifs : OnList(n, a)

\* the MAC addresses handed to the sink, in order
RECURSIVE SinkMacSeq(_)
SinkMacSeq(ev) ==
  IF ev = <<>> THEN <<>>
  ELSE (IF Head(ev).kind = "sink_mac" THEN <<Head(ev).mac>> ELSE <<>>)
       \o SinkMacSeq(Tail(ev))

\* the timing the concrete scenarios name: 100 ms tick, probe_wait 0,
\* probe_num 3, probe_min 1000, probe_max 2000, announce_wait 2000,
\* announce_num 2, announce_interval 2000
ScenarioTiming ==
  /\ cfg.ACD_TMR_INTERVAL = 100
  /\ cfg.PROBE_WAIT_MS = 0 /\ cfg.PROBE_NUM = 3
  /\ cfg.PROBE_MIN_MS = 1000 /\ cfg.PROBE_MAX_MS = 2000
  /\ cfg.ANNOUNCE_WAIT_MS = 2000 /\ cfg.ANNOUNCE_NUM = 2
  /\ cfg.ANNOUNCE_INTERVAL_MS = 2000

(***************************************************************************)
(* C1 (SpecTimed).  On a quiet network (no inbound ARP, no stop, link-down *)
(* or address change), a client that was started is eventually in ONGOING  *)
(* with ACD_IP_OK delivered, and over the whole run ACD_IP_OK is delivered *)
(* exactly once: never before ONGOING, never a second time on later ticks. *)
(***************************************************************************)
C1_QuietRunReachesOngoingOnce ==
  /\ \A a \in Acds :
       (acd[a].state # ACD_STATE_OFF)
         ~> (acd[a].state = ACD_STATE_ONGOING /\ Len(ipok_at) = 1)
  /\ [](Len(ipok_at) <= 1)
  /\ [](\A a \in scope.acds : acd[a].state = ACD_STATE_ONGOING <=> Len(ipok_at) = 1)

\* the client has been in ONGOING for two periodic-defence periods and
\* ACD_IP_OK was delivered once
C1_Witness ==
  /\ acd["acd1"].state = ACD_STATE_ONGOING
  /\ Len(ipok_at) = 1
  /\ ongoing_at >= 0
  /\ clock >= ongoing_at + 100

(***************************************************************************)
(* C2 as stated (SpecTimed).  With the scenario timing ACD_IP_OK is never  *)
(* delivered before the 90th acd_tmr call after acd_start.                 *)
(***************************************************************************)
C2_Original_IpOkNotBefore90 ==
  ScenarioTiming => \A i \in 1..Len(ipok_at) : ipok_at[i] >= 90

(***************************************************************************)
(* C2 amended (SpecTimed).  With the scenario timing ACD_IP_OK is never    *)
(* delivered before the 61st acd_tmr call after acd_start (6100 ms): the   *)
(* first probe goes out on the first tick, two probe intervals of at least *)
(* 10 ticks, the announce wait of 20 ticks and one announce interval of 20 *)
(* ticks follow, and ACD_IP_OK comes with the second announce.             *)
(***************************************************************************)
C2_IpOkNotBefore61 ==
  ScenarioTiming => \A i \in 1..Len(ipok_at) : ipok_at[i] >= 61

\* the earliest run: ACD_IP_OK on the 61st tick
C2_Witness == ScenarioTiming /\ ipok_at = <<61>>

(***************************************************************************)
(* C3 (SpecTimed).  With the scenario timing, once 110 acd_tmr calls have  *)
(* been made after acd_start the client is in ONGOING and ACD_IP_OK has    *)
(* been delivered, whatever the random probe intervals were.               *)
(***************************************************************************)
C3_OngoingWithin110 ==
  (ScenarioTiming /\ clock >= 110)
    => \A a \in scope.acds : acd[a].state = ACD_STATE_ONGOING /\ Len(ipok_at) = 1

\* the slowest run delivered ACD_IP_OK on its 79th tick, and 110 ticks passed
C3_Witness == ScenarioTiming /\ clock = 110 /\ ipok_at = <<79>>

C4_ProbeConflictDeclineRestart ==
  [][ \A n \in Netifs : \A hdr \in Hdrs(n) : \A a \in Acds :
        ( /\ op' = "acd_arp_reply"
          /\ acd[a].state \in {ACD_STATE_PROBE_WAIT, ACD_STATE_PROBING}
          /\ hdr.sipaddr = acd[a].ipaddr /\ hdr.shwaddr # hwaddr[n]
          /\ acd[a].num_conflicts + 1 < cfg.MAX_CONFLICTS
          /\ OnList(n, a)
          /\ ArpReply(n, hdr) )
        => /\ CallbackSeq(out', a) = <<ACD_DECLINE, ACD_RESTART_CLIENT>>
           /\ acd'[a].state = ACD_STATE_OFF
           /\ SinkMacSeq(out') # <<>>
           /\ \A i \in 1..Len(SinkMacSeq(out')) : SinkMacSeq(out')[i] = hdr.shwaddr
    ]_vars

\* a probing client (one probe sent) has just been declined and stopped
C4_Witness ==
  /\ op = "acd_arp_reply"
  /\ CallbackSeq(out, "acd1") = <<ACD_DECLINE, ACD_RESTART_CLIENT>>
  /\ SinkMacSeq(out) = <<MacForeign>>
  /\ acd["acd1"].state = ACD_STATE_OFF
  /\ acd["acd1"].sent_num = 1
  /\ acd["acd1"].lastconflict = 0

(***************************************************************************)
(* C5 (Spec).  For a client in ONGOING: a conflicting ARP frame (sender IP *)
(* = address, foreign MAC) arriving with lastconflict = 0 sends exactly    *)
(* one announce, sets lastconflict to the defend interval in ticks (not    *)
(* 0), calls no callback and leaves the state ONGOING; one arriving with   *)
(* lastconflict > 0 sends no announce and restarts: DECLINE, then either   *)
(* OFF with RESTART_CLIENT or RATE_LIMIT.                                  *)
(***************************************************************************)
C5_OngoingDefendThenRestart ==
  [][ \A n \in Netifs : \A hdr \in Hdrs(n) : \A a \in Acds :
        ( /\ op' = "acd_arp_reply"
          /\ acd[a].state = ACD_STATE_ONGOING
          /\ hdr.sipaddr = acd[a].ipaddr /\ hdr.shwaddr # hwaddr[n]
          /\ OnList(n, a)
          /\ ArpReply(n, hdr) )
        => IF acd[a].lastconflict = 0
           THEN /\ SendSeqOf(out', a) = <<"announce">>
                /\ acd'[a].lastconflict = DEFEND_TICKS
                /\ acd'[a].lastconflict > 0
                /\ CallbackSeq(out', a) = <<>>
                /\ acd'[a].state = ACD_STATE_ONGOING
           ELSE /\ SendSeqOf(out', a) = <<>>
                /\ \/ /\ CallbackSeq(out', a) = <<ACD_DECLINE, ACD_RESTART_CLIENT>>
                      /\ acd'[a].state = ACD_STATE_OFF
                   \/ /\ CallbackSeq(out', a) = <<ACD_DECLINE>>
                      /\ acd'[a].state = ACD_STATE_RATE_LIMIT
    ]_vars

\* a second conflict inside the defend window has just stopped a client that
\* was in ONGOING (sent_num 0) and had defended once (lastconflict running)
C5_Witness ==
  /\ op = "acd_arp_reply"
  /\ CallbackSeq(out, "acd1") = <<ACD_DECLINE, ACD_RESTART_CLIENT>>
  /\ SendSeq(out) = <<>>
  /\ acd["acd1"].state = ACD_STATE_OFF
  /\ acd["acd1"].sent_num = 0
  /\ acd["acd1"].lastconflict > 0
  /\ acd["acd1"].lastconflict < DEFEND_TICKS

(***************************************************************************)
(* C6 (Spec).  A restart that brings num_conflicts to MAX_CONFLICTS or     *)
(* more puts the client in RATE_LIMIT with ttw = the rate-limit interval   *)
(* in ticks and delivers DECLINE only.  From then on, as long as the       *)
(* client stays registered and no acd_stop, link-down, address change or   *)
(* acd_start is made, every acd_tmr call but the one that brings ttw to 0  *)
(* takes one tick off ttw and delivers nothing, no other call touches the  *)
(* client, and the acd_tmr call that brings ttw to 0 (the                  *)
(* rate-limit-interval-th one) delivers RESTART_CLIENT and leaves the      *)
(* client in OFF.                                                          *)
(***************************************************************************)
C6_RateLimitThenRestartClient ==
  [][ \A a \in Acds :
        /\ \A n \in Netifs : \A hdr \in Hdrs(n) :
             ( /\ op' = "acd_arp_reply"
               /\ acd[a].num_conflicts + 1 >= cfg.MAX_CONFLICTS
               /\ RestartCase(n, a, hdr)
               /\ ArpReply(n, hdr) )
             => /\ acd'[a].state = ACD_STATE_RATE_LIMIT
                /\ acd'[a].ttw = RATE_LIMIT_TICKS
                /\ CallbackSeq(out', a) = <<ACD_DECLINE>>
        /\ ( /\ acd[a].state = ACD_STATE_RATE_LIMIT
             /\ Registered(a)
             /\ op' = "acd_tmr" )
           => IF acd[a].ttw > 1
              THEN /\ acd'[a] = [acd[a] EXCEPT !.ttw = @ - 1,
                                               !.lastconflict = IF @ > 0 THEN @ - 1 ELSE 0]
                   /\ CallbackSeq(out', a) = <<>>
              ELSE /\ acd'[a].state = ACD_STATE_OFF
                   /\ CallbackSeq(out', a) = <<ACD_RESTART_CLIENT>>
        /\ ( /\ acd[a].state = ACD_STATE_RATE_LIMIT
             /\ op' \in {"acd_add", "acd_arp_reply"} )
           => /\ acd'[a].state = ACD_STATE_RATE_LIMIT
              /\ acd'[a].ttw = acd[a].ttw
              /\ CallbackSeq(out', a) = <<>>
    ]_vars

\* the rate limit has just run out: RESTART_CLIENT delivered, client in OFF
C6_Witness ==
  /\ op = "acd_tmr"
  /\ CallbackSeq(out, "acd1") = <<ACD_RESTART_CLIENT>>
  /\ acd["acd1"].state = ACD_STATE_OFF
  /\ acd["acd1"].ttw = 0
  /\ acd["acd1"].num_conflicts >= cfg.MAX_CONFLICTS

(***************************************************************************)
(* C8 (Spec).  acd_netif_ip_addr_changed from a link-local old address     *)
(* that is the address of a client in ONGOING to a routable new address    *)
(* puts that client in PASSIVE_ONGOING without a callback; a conflicting   *)
(* ARP frame (sender IP = address, foreign MAC) for a client in            *)
(* PASSIVE_ONGOING delivers DECLINE exactly once and nothing else to the   *)
(* callback, leaves the client in OFF and sends no announce.               *)
(***************************************************************************)
C8_DemoteThenRetreat ==
  [][ \A n \in Netifs : \A a \in Acds :
        /\ \A old_addr \in Ips : \A new_addr \in Ips :
             ( /\ op' = "acd_netif_ip_addr_changed"
               /\ acd[a].state = ACD_STATE_ONGOING
               /\ acd[a].ipaddr = old_addr
               /\ ip4_addr_islinklocal(old_addr)
               /\ ~ip4_addr_islinklocal(new_addr) /\ ~ip4_addr_isany_val(new_addr)
               /\ OnList(n, a)
               /\ IpAddrChanged(n, old_addr, new_addr) )
             => /\ acd'[a].state = ACD_STATE_PASSIVE_ONGOING
                /\ CallbackSeq(out', a) = <<>>
        /\ \A hdr \in Hdrs(n) :
             ( /\ op' = "acd_arp_reply"
               /\ acd[a].state = ACD_STATE_PASSIVE_ONGOING
               /\ hdr.sipaddr = acd[a].ipaddr /\ hdr.shwaddr # hwaddr[n]
               /\ OnList(n, a)
               /\ ArpReply(n, hdr) )
             => /\ CallbackSeq(out', a) = <<ACD_DECLINE>>
                /\ acd'[a].state = ACD_STATE_OFF
                /\ SendSeqOf(out', a) = <<>>
    ]_vars

\* a conflict has just made a client retreat with DECLINE alone: it was in
\* PASSIVE_ONGOING
C8_Witness ==
  /\ op = "acd_arp_reply"
  /\ CallbackSeq(out, "acd1") = <<ACD_DECLINE>>
  /\ SendSeq(out) = <<>>
  /\ acd["acd1"].state = ACD_STATE_OFF
  /\ ip4_addr_islinklocal(acd["acd1"].ipaddr)

(***************************************************************************)
(* C9 (SpecReg).  After any sequence of acd_add, acd_remove, acd_start,    *)
(* acd_stop, acd_tmr, acd_arp_reply, link-down and address-change calls,   *)
(* no interface's list holds two distinct clients that are both active     *)
(* (state not OFF) and have the same address.                              *)
(***************************************************************************)
C9_NoTwoActiveSameAddress ==
  \A n \in Netifs : \A a \in Acds : \A b \in Acds :
    ( /\ a # b /\ OnList(n, a) /\ OnList(n, b)
      /\ acd[a].state # ACD_STATE_OFF /\ acd[b].state # ACD_STATE_OFF )
      => acd[a].ipaddr # acd[b].ipaddr

(***************************************************************************)
(* C10 (Spec).  ttw is never negative and never wraps: it stays within     *)
(* 0..65535.  On an acd_tmr call that makes no ARP send for a registered   *)
(* client and leaves its state as it was, the client's ttw is one less     *)
(* than before if it was positive and 0 if it was 0.                       *)
(***************************************************************************)
C10_TtwNeverNegativeNorIncreasing ==
  /\ [](\A a \in Acds : acd[a].ttw \in 0..(U16 - 1))
  /\ [][ \A a \in Acds :
           ( /\ op' = "acd_tmr"
             /\ Registered(a)
             /\ SendSeqOf(out', a) = <<>>
             /\ acd'[a].state = acd[a].state )
           => acd'[a].ttw = IF acd[a].ttw > 0 THEN acd[a].ttw - 1 ELSE 0
       ]_vars

\* with the periodic defence off, a tick has found a client in ONGOING with
\* ttw 0 and left it there: no send, the count stays at 0
C10_Witness ==
  /\ op = "acd_tmr"
  /\ out = <<>>
  /\ Registered("acd1")
  /\ acd["acd1"].state = ACD_STATE_ONGOING
  /\ acd["acd1"].ttw = 0
  /\ acd["acd1"].lastconflict > 0

(***************************************************************************)
(* C11 (Spec).  acd_stop on a client in any state sets its state to OFF,   *)
(* returns ERR_OK, calls no callback and sends no frame; ipaddr, ttw,      *)
(* sent_num, num_conflicts and lastconflict (and the callback) are left as *)
(* they were.                                                              *)
(***************************************************************************)
C11_StopForcesOffOnly ==
  [][ \A a \in Acds :
        (op' = "acd_stop" /\ Stop(a))
        => /\ acd'[a] = [acd[a] EXCEPT !.state = ACD_STATE_OFF]
           /\ acd'[a].state = ACD_STATE_OFF
           /\ ret' = ERR_OK
           /\ out' = <<>>
    ]_vars

\* a client has just been stopped with its countdown running and its
\* conflict count at the limit
C11_Witness ==
  /\ op = "acd_stop"
  /\ ret = ERR_OK
  /\ acd["acd1"].state = ACD_STATE_OFF
  /\ acd["acd1"].ttw > 0
  /\ acd["acd1"].num_conflicts >= cfg.MAX_CONFLICTS

(***************************************************************************)
(* C12 (SpecReg).  acd_network_changed_link_down(netif) puts every client  *)
(* on that interface's list in OFF, whatever its state was, and changes    *)
(* nothing else of it; it calls no callback and sends nothing; the clients *)
(* on other interfaces' lists are unchanged.                               *)
(***************************************************************************)
C12_LinkDownStopsInterfaceOnly ==
  [][ \A n \in Netifs :
        (op' = "acd_network_changed_link_down" /\ LinkDown(n))
        => /\ \A a \in Acds :
                acd'[a] = IF OnList(n, a)
                          THEN [acd[a] EXCEPT !.state = ACD_STATE_OFF]
                          ELSE acd[a]
           /\ out' = <<>>
    ]_vars

\* the fifth call took en1 down: its started client is OFF, the started
\* client of en2 is still in PROBE_WAIT
C12_Witness ==
  /\ op = "acd_network_changed_link_down"
  /\ calls = 5
  /\ OnList("en1", "acd1") /\ OnList("en2", "acd2")
  /\ acd["acd1"].state = ACD_STATE_OFF /\ acd["acd1"].ipaddr # IPADDR_ANY
  /\ acd["acd2"].state = ACD_STATE_PROBE_WAIT

\* what a call handed out in its pass for client a, in order
RECURSIVE EventsOf(_, _)
EventsOf(ev, a) ==
  IF ev = <<>> THEN <<>>
  ELSE (IF Head(ev).acd = a THEN <<Head(ev)>> ELSE <<>>) \o EventsOf(Tail(ev), a)

(***************************************************************************)
(* C13 (SpecPair).  When acd_arp_reply takes a frame as a conflict for a    *)
(* client, the first two things it hands out for that client are the       *)
(* frame's sender MAC and the raw frame to the sink, made while the        *)
(* client's fields are still what they were before the call; the           *)
(* callbacks (and the announce) of that conflict come after them, and the  *)
(* sink is not called again for it.  For a client the frame is no conflict *)
(* for, acd_arp_reply hands out nothing: no sink call, no callback.        *)
(***************************************************************************)
C13_SinkFirstAndOnlyOnConflict ==
  [][ \A n \in Netifs : \A hdr \in Hdrs(n) :
        (op' = "acd_arp_reply" /\ ArpReply(n, hdr))
        => \A a \in Acds :
             LET es == EventsOf(out', a)
             IN  IF OnList(n, a) /\ IsConflict(n, acd[a], hdr)
                 THEN /\ Len(es) >= 3
                      /\ es[1].kind = "sink_mac" /\ es[1].mac = hdr.shwaddr
                      /\ es[2].kind = "sink_raw" /\ es[2].hdr = hdr
                      /\ es[1].at = acd[a] /\ es[2].at = acd[a]
                      /\ \A i \in 3..Len(es) : ~IsSink(es[i])
                 ELSE es = <<>>
    ]_vars

\* one frame was a conflict for both clients of an interface: sink, sink,
\* DECLINE, RESTART_CLIENT for the one, then the same for the other
C13_Witness ==
  /\ op = "acd_arp_reply"
  /\ Len(out) = 8
  /\ out[1].kind = "sink_mac" /\ out[2].kind = "sink_raw"
  /\ out[3].kind = "callback" /\ out[3].what = ACD_DECLINE
  /\ out[4].kind = "callback" /\ out[4].what = ACD_RESTART_CLIENT
  /\ out[5].kind = "sink_mac" /\ out[5].acd # out[1].acd

(***************************************************************************)
(* C14 (Spec).  A failed probe or announce send does not alter the state   *)
(* machine: in every state a registered client reaches, and for every      *)
(* random value, the acd_tmr pass in which the transport send fails leaves *)
(* the same fields (state, sent_num, ttw and the rest), makes the same     *)
(* callbacks and attempts the same sends as the pass in which the send     *)
(* succeeds.                                                               *)
(***************************************************************************)
C14_FailedSendChangesNothing ==
  \A n \in Netifs : \A a \in Acds :
    OnList(n, a)
    => \A r \in RandVals :
         LET sent == TmrClient(n, a, acd[a], r, TRUE)
             failed == TmrClient(n, a, acd[a], r, FALSE)
         IN  /\ failed.s = sent.s
             /\ CallbackSeq(failed.ev, a) = CallbackSeq(sent.ev, a)
             /\ SendSeqOf(failed.ev, a) = SendSeqOf(sent.ev, a)

\* the send of the last announce has just failed: the client is in ONGOING
\* all the same and ACD_IP_OK was delivered
C14_Witness ==
  /\ op = "acd_tmr"
  /\ Len(out) = 2
  /\ out[1].kind = "announce" /\ ~out[1].ok
  /\ out[2].kind = "callback" /\ out[2].what = ACD_IP_OK
  /\ acd["acd1"].state = ACD_STATE_ONGOING

(***************************************************************************)
(* C15 as stated (SpecCb).  acd_add for a client that is already on the    *)
(* interface's list returns an error (not ERR_OK) and leaves the list and  *)
(* the client unchanged.                                                   *)
(***************************************************************************)
C15_Original_DuplicateAddIsAnError ==
  [][ \A n \in Netifs : \A a \in Acds : \A cb \in Callbacks :
        (op' = "acd_add" /\ OnList(n, a) /\ Add(n, a, cb))
        => /\ ret' # ERR_OK
           /\ UNCHANGED <<acd_list, next, acd>>
    ]_vars

(***************************************************************************)
(* C15 amended (SpecCb).  acd_add for a client that is already on the      *)
(* interface's list returns ERR_OK and leaves the list unchanged; of the   *)
(* client it replaces the callback by the one passed and changes nothing   *)
(* else; it calls no callback and sends nothing.                           *)
(***************************************************************************)
C15_DuplicateAddReturnsOkSetsCallback ==
  [][ \A n \in Netifs : \A a \in Acds : \A cb \in Callbacks :
        (op' = "acd_add" /\ OnList(n, a) /\ Add(n, a, cb))
        => /\ ret' = ERR_OK
           /\ UNCHANGED <<acd_list, next>>
           /\ acd' = [acd EXCEPT ![a].acd_conflict_callback = cb]
           /\ out' = <<>>
    ]_vars

\* the third call was acd_add with the second callback, for a client that
\* had been added and started: it is still in PROBE_WAIT
C15_Witness ==
  /\ op = "acd_add" /\ ret = ERR_OK
  /\ calls = 3
  /\ OnList("en1", "acd1")
  /\ acd["acd1"].state = ACD_STATE_PROBE_WAIT
  /\ acd["acd1"].acd_conflict_callback = "cb2"

(***************************************************************************)
(* C16 (Spec).  No call (acd_add, acd_remove, acd_start, acd_stop,         *)
(* acd_tmr, acd_arp_reply, link-down, address change) changes the ipaddr   *)
(* of a client whose state is not OFF.                                     *)
(***************************************************************************)
C16_AddressFixedWhileActive ==
  [][ \A a \in Acds :
        acd[a].state # ACD_STATE_OFF => acd'[a].ipaddr = acd[a].ipaddr ]_vars

\* what a run without conflict hands out up to ACD_IP_OK: PROBE_NUM probes
\* sent in PROBING, ANNOUNCE_NUM announces sent in ANNOUNCING, then
\* ACD_IP_OK with the client in ONGOING
QuietRunHist ==
  [i \in 1..cfg.PROBE_NUM |-> <<"probe", ACD_STATE_PROBING>>]
  \o [i \in 1..cfg.ANNOUNCE_NUM |-> <<"announce", ACD_STATE_ANNOUNCING>>]
  \o << <<ACD_IP_OK, ACD_STATE_ONGOING>> >>

\* the place of a state in PROBE_WAIT -> PROBING -> ANNOUNCE_WAIT ->
\* ANNOUNCING -> ONGOING
PhaseRank(state) ==
  CASE state = ACD_STATE_PROBE_WAIT -> 1
    [] state = ACD_STATE_PROBING -> 2
    [] state = ACD_STATE_ANNOUNCE_WAIT -> 3
    [] state = ACD_STATE_ANNOUNCING -> 4
    [] state = ACD_STATE_ONGOING -> 5
    [] OTHER -> 0

(***************************************************************************)
(* C17 (SpecTimed).  In a run from acd_start without conflict, what is     *)
(* handed out up to ACD_IP_OK is exactly PROBE_NUM probes, each sent in    *)
(* PROBING, then exactly ANNOUNCE_NUM announces, each sent in ANNOUNCING,   *)
(* then ACD_IP_OK, called after the last announce with the client already  *)
(* in ONGOING; no ACD_IP_OK comes before or again after.  The client's     *)
(* state moves only along PROBE_WAIT -> PROBING -> ANNOUNCE_WAIT ->        *)
(* ANNOUNCING -> ONGOING, one step at a time.                              *)
(***************************************************************************)
C17_ProbesThenAnnouncesThenIpOk ==
  /\ [](clock >= 0
        => LET full == QuietRunHist
           IN  IF ipok_at = <<>>
               THEN /\ Len(hist) < Len(full)
                    /\ hist = SubSeq(full, 1, Len(hist))
               ELSE /\ Len(hist) >= Len(full)
                    /\ SubSeq(hist, 1, Len(full)) = full
                    /\ \A i \in (Len(full) + 1)..Len(hist) : hist[i][1] # ACD_IP_OK)
  /\ [][ \A a \in Acds :
           (clock >= 0 /\ acd[a].state # ACD_STATE_OFF)
           => /\ PhaseRank(acd'[a].state) \in {PhaseRank(acd[a].state),
                                                PhaseRank(acd[a].state) + 1}
              /\ PhaseRank(acd'[a].state) > 0
       ]_vars

\* the scenario run has just delivered ACD_IP_OK: three probes, two
\* announces and the callback have been handed out, no more
C17_Witness ==
  /\ ScenarioTiming
  /\ op = "acd_tmr"
  /\ Len(ipok_at) = 1 /\ clock = ipok_at[1]
  /\ Len(hist) = 6
  /\ hist[3] = <<"probe", ACD_STATE_PROBING>>
  /\ hist[5] = <<"announce", ACD_STATE_ANNOUNCING>>
  /\ hist[6] = <<ACD_IP_OK, ACD_STATE_ONGOING>>
  /\ acd["acd1"].state = ACD_STATE_ONGOING

\* ACD_IP_OK is among the callbacks ev holds for client a
IpOkIn(ev, a) ==
  \E i \in 1..Len(ev) : IsCallbackOf(ev[i], a) /\ ev[i].what = ACD_IP_OK

(***************************************************************************)
(* C18 (Spec).  Once acd_arp_reply has detected a conflict for a client in *)
(* PROBE_WAIT, PROBING or ANNOUNCE_WAIT the address is not assigned: that  *)
(* call leaves the client in OFF or RATE_LIMIT without ACD_IP_OK, and as   *)
(* long as acd_start is not called a client in OFF or RATE_LIMIT stays in  *)
(* OFF or RATE_LIMIT (it reaches neither ANNOUNCING nor ONGOING) and gets  *)
(* no ACD_IP_OK.                                                           *)
(***************************************************************************)
C18_NoAssignmentAfterProbeConflict ==
  [][ \A a \in Acds :
        /\ ( /\ op' = "acd_arp_reply"
             /\ acd[a].state \in ProbePhase
             /\ \E i \in 1..Len(out') : IsSink(out'[i]) /\ out'[i].acd = a )
           => /\ acd'[a].state \in {ACD_STATE_OFF, ACD_STATE_RATE_LIMIT}
              /\ ~IpOkIn(out', a)
        /\ ( /\ acd[a].state \in {ACD_STATE_OFF, ACD_STATE_RATE_LIMIT}
             /\ op' # "acd_start" )
           => /\ acd'[a].state \in {ACD_STATE_OFF, ACD_STATE_RATE_LIMIT}
              /\ ~IpOkIn(out', a)
    ]_vars

\* a conflict has just been detected for a client that had sent its probes
\* and was waiting to announce: it is OFF
C18_Witness ==
  /\ op = "acd_arp_reply"
  /\ Len(out) >= 3
  /\ out[1].kind = "sink_mac" /\ out[1].acd = "acd1"
  /\ out[1].at.state = ACD_STATE_ANNOUNCE_WAIT
  /\ acd["acd1"].state = ACD_STATE_OFF

C20_OngoingConflictIff ==
  \A n \in Netifs : \A a \in Acds :
    ( /\ OnList(n, a)
      /\ acd[a].state \in {ACD_STATE_ANNOUNCING, ACD_STATE_ONGOING,
                            ACD_STATE_PASSIVE_ONGOING} )
    => \A hdr \in Hdrs(n) :
         \A st \in ArpLoop(n, AcdList(n), hdr, [acd |-> acd, ev |-> <<>>]) :
           LET es == EventsOf(st.ev, a)
               handled == /\ Len(es) >= 3
                          /\ IsSink(es[1]) /\ IsSink(es[2])
                          /\ \/ es[3].kind = "announce"
                             \/ es[3].kind = "callback" /\ es[3].what = ACD_DECLINE
                          /\ st.acd[a] # acd[a]
               untouched == es = <<>> /\ st.acd[a] = acd[a]
               cond == hdr.sipaddr = acd[a].ipaddr /\ hdr.shwaddr # hwaddr[n]
           IN  /\ handled <=> cond
               /\ untouched <=> ~cond

\* a frame from a foreign MAC with the address of a client in
\* PASSIVE_ONGOING as its sender, and another target, has been handled as a
\* conflict
C20_Witness ==
  /\ op = "acd_arp_reply"
  /\ Len(out) >= 3
  /\ out[2].kind = "sink_raw" /\ out[2].acd = "acd1"
  /\ out[2].at.state = ACD_STATE_PASSIVE_ONGOING
  /\ out[2].hdr.sipaddr = out[2].at.ipaddr
  /\ out[2].hdr.dipaddr # out[2].at.ipaddr
  /\ out[2].hdr.shwaddr = MacForeign

(***************************************************************************)
(* C21 (SpecPair).  In every state a registered client reaches in OFF or   *)
(* RATE_LIMIT, acd_arp_reply with any frame (sender IP, sender MAC, target *)
(* IP) leaves every field of that client unchanged and hands out nothing   *)
(* for it: no callback, no ARP send, no sink call, whatever the frame is   *)
(* for the other client of the interface.                                  *)
(***************************************************************************)
C21_OffAndRateLimitIgnoreFrames ==
  \A n \in Netifs : \A a \in Acds :
    (OnList(n, a) /\ acd[a].state \in {ACD_STATE_OFF, ACD_STATE_RATE_LIMIT})
    => \A hdr \in Hdrs(n) :
         \A st \in ArpLoop(n, AcdList(n), hdr, [acd |-> acd, ev |-> <<>>]) :
           /\ st.acd[a] = acd[a]
           /\ EventsOf(st.ev, a) = <<>>

\* a frame has arrived for a client in RATE_LIMIT and nothing was handed out
C21_Witness ==
  /\ op = "acd_arp_reply"
  /\ out = <<>>
  /\ OnList("en1", "acd1")
  /\ acd["acd1"].state = ACD_STATE_RATE_LIMIT
  /\ acd["acd1"].ttw = RATE_LIMIT_TICKS

(***************************************************************************)
(* C22 (Spec).  Every restart (a conflict for a client in PROBE_WAIT,      *)
(* PROBING or ANNOUNCE_WAIT, or for one in ANNOUNCING or ONGOING with      *)
(* lastconflict > 0) increments num_conflicts by exactly 1 and calls the   *)
(* callback with DECLINE.  If the incremented value is >= MAX_CONFLICTS    *)
(* the client goes to RATE_LIMIT with ttw = the rate limit interval in     *)
(* ticks and DECLINE is the only callback of that call; otherwise the      *)
(* client goes to OFF, ttw unchanged, and RESTART_CLIENT follows DECLINE.  *)
(* The address, sent_num, lastconflict and the callback are unchanged.     *)
(***************************************************************************)
C22_RestartCountsDeclinesThenLimitsOrStops ==
  \A n \in Netifs : \A a \in Acds : \A hdr \in Hdrs(n) :
    RestartCase(n, a, hdr)
    => \A st \in ArpLoop(n, AcdList(n), hdr, [acd |-> acd, ev |-> <<>>]) :
         LET s == acd[a]
             t == st.acd[a]
             cbs == CallbackSeq(st.ev, a)
         IN  /\ t.num_conflicts = s.num_conflicts + 1
             /\ Len(cbs) >= 1 /\ cbs[1] = ACD_DECLINE
             /\ IF s.num_conflicts + 1 >= cfg.MAX_CONFLICTS
                THEN /\ t.state = ACD_STATE_RATE_LIMIT
                     /\ t.ttw * cfg.ACD_TMR_INTERVAL = cfg.RATE_LIMIT_INTERVAL * 1000
                     /\ cbs = <<ACD_DECLINE>>
                ELSE /\ t.state = ACD_STATE_OFF
                     /\ t.ttw = s.ttw
                     /\ cbs = <<ACD_DECLINE, ACD_RESTART_CLIENT>>
             /\ SendSeqOf(st.ev, a) = <<>>
             /\ t = [s EXCEPT !.num_conflicts = t.num_conflicts, !.state = t.state,
                              !.ttw = t.ttw]

\* the restart that reached MAX_CONFLICTS: DECLINE alone, RATE_LIMIT
C22_Witness ==
  /\ op = "acd_arp_reply"
  /\ CallbackSeq(out, "acd1") = <<ACD_DECLINE>>
  /\ SendSeq(out) = <<>>
  /\ acd["acd1"].state = ACD_STATE_RATE_LIMIT
  /\ acd["acd1"].num_conflicts = cfg.MAX_CONFLICTS
  /\ acd["acd1"].ttw = 60

(***************************************************************************)
(* C23 (SpecTimed), as stated.  For a client in PROBE_WAIT or PROBING, an  *)
(* acd_tmr call that starts with ttw > 0, ttw = 1 included, only           *)
(* decrements ttw: no probe is sent, the state and sent_num are unchanged. *)
(***************************************************************************)
C23_Original_PositiveTtwOnlyDecrements ==
  [][ \A n \in Netifs : \A a \in Acds :
        ( /\ op' = "acd_tmr"
          /\ acd[a].state \in {ACD_STATE_PROBE_WAIT, ACD_STATE_PROBING}
          /\ acd[a].ttw > 0
          /\ OnList(n, a) )
        => /\ acd'[a].ttw = acd[a].ttw - 1
           /\ acd'[a].state = acd[a].state
           /\ acd'[a].sent_num = acd[a].sent_num
           /\ SendSeqOf(out', a) = <<>>
    ]_vars

(***************************************************************************)
(* C23 (SpecTimed), amended.  acd_tmr decrements ttw before it tests it    *)
(* for 0.  For a client in PROBE_WAIT or PROBING, an acd_tmr call that     *)
(* starts with ttw > 1 only decrements ttw: no probe is sent, the state    *)
(* and sent_num are unchanged.  The call that starts with ttw = 1 brings   *)
(* ttw to 0 and sends the probe in that same call, as does the call that   *)
(* starts with ttw = 0.                                                    *)
(***************************************************************************)
C23_TtwAboveOneOnlyDecrements ==
  [][ \A n \in Netifs : \A a \in Acds :
        ( /\ op' = "acd_tmr"
          /\ acd[a].state \in {ACD_STATE_PROBE_WAIT, ACD_STATE_PROBING}
          /\ OnList(n, a) )
        => IF acd[a].ttw > 1
           THEN /\ acd'[a] = [acd[a] EXCEPT !.ttw = @ - 1]
                /\ EventsOf(out', a) = <<>>
           ELSE /\ SendSeqOf(out', a) = <<"probe">>
                /\ acd'[a].state \in {ACD_STATE_PROBING, ACD_STATE_ANNOUNCE_WAIT}
                /\ acd'[a].sent_num # acd[a].sent_num
    ]_vars

\* a tick in the middle of the wait between two probes: ttw went down to 5,
\* nothing was sent
C23_Witness ==
  /\ op = "acd_tmr"
  /\ out = <<>>
  /\ acd["acd1"].state = ACD_STATE_PROBING
  /\ acd["acd1"].sent_num = 1
  /\ acd["acd1"].ttw = 5

\* t ticks are the least number of ticks that last ms milliseconds or more
LeastTicksFor(t, ms) ==
  /\ t * cfg.ACD_TMR_INTERVAL >= ms
  /\ t > 0 => (t - 1) * cfg.ACD_TMR_INTERVAL < ms

(***************************************************************************)
(* C24 (SpecTimed; PROBE_MIN_MS <= PROBE_MAX_MS in every configuration).   *)
(* When an acd_tmr call sends a probe for a client in PROBE_WAIT or        *)
(* PROBING, sent_num is incremented.  If it has reached PROBE_NUM the      *)
(* client is in ANNOUNCE_WAIT with sent_num = 0 and ttw = the announce     *)
(* wait in ticks; otherwise it is in PROBING with the incremented sent_num *)
(* and a ttw that is not below the probe minimum in ticks and not above    *)
(* the probe maximum in ticks.                                             *)
(***************************************************************************)
C24_ProbeSentThenWaitWithinMinMax ==
  [][ \A n \in Netifs : \A a \in Acds :
        ( /\ op' = "acd_tmr"
          /\ acd[a].state \in {ACD_STATE_PROBE_WAIT, ACD_STATE_PROBING}
          /\ OnList(n, a)
          /\ SendSeqOf(out', a) # <<>> )
        => /\ SendSeqOf(out', a) = <<"probe">>
           /\ IF acd[a].sent_num + 1 >= cfg.PROBE_NUM
              THEN /\ acd'[a].state = ACD_STATE_ANNOUNCE_WAIT
                   /\ acd'[a].sent_num = 0
                   /\ LeastTicksFor(acd'[a].ttw, cfg.ANNOUNCE_WAIT_MS)
              ELSE /\ acd'[a].state = ACD_STATE_PROBING
                   /\ acd'[a].sent_num = acd[a].sent_num + 1
                   /\ acd'[a].ttw * cfg.ACD_TMR_INTERVAL >= cfg.PROBE_MIN_MS
                   /\ (acd'[a].ttw - 1) * cfg.ACD_TMR_INTERVAL < cfg.PROBE_MAX_MS
    ]_vars

\* the second probe has been sent and the longest wait drawn: 19 ticks of
\* 100 ms
C24_Witness ==
  /\ op = "acd_tmr"
  /\ SendSeq(out) = <<"probe">>
  /\ cfg.ACD_TMR_INTERVAL = 100
  /\ acd["acd1"].state = ACD_STATE_PROBING
  /\ acd["acd1"].sent_num = 2
  /\ acd["acd1"].ttw = 19

\* an acd_tmr call is an announce tick for a client with fields s: the
\* client is in the announce phase and its ttw is 0 once decremented
AnnounceTick(s) ==
  /\ s.state \in {ACD_STATE_ANNOUNCE_WAIT, ACD_STATE_ANNOUNCING}
  /\ s.ttw <= 1

(***************************************************************************)
(* C25 (Spec), as stated.  The first announce tick of a client in          *)
(* ANNOUNCE_WAIT (sent_num = 0, ttw reaching 0) sets the state to          *)
(* ANNOUNCING and num_conflicts to 0; every announce tick sends exactly    *)
(* one announce, increments sent_num and sets ttw to the announce interval *)
(* in ticks.                                                               *)
(***************************************************************************)
C25_Original_EveryAnnounceTickCountsAndWaits ==
  [][ \A n \in Netifs : \A a \in Acds :
        (op' = "acd_tmr" /\ AnnounceTick(acd[a]) /\ OnList(n, a))
        => /\ SendSeqOf(out', a) = <<"announce">>
           /\ acd'[a].sent_num = acd[a].sent_num + 1
           /\ LeastTicksFor(acd'[a].ttw, cfg.ANNOUNCE_INTERVAL_MS)
           /\ acd[a].state = ACD_STATE_ANNOUNCE_WAIT
              => /\ acd'[a].state = ACD_STATE_ANNOUNCING
                 /\ acd'[a].num_conflicts = 0
    ]_vars

(***************************************************************************)
(* C25 (Spec), amended.  Every announce tick sends exactly one announce,   *)
(* in state ANNOUNCING, and the first one of a client in ANNOUNCE_WAIT     *)
(* (sent_num = 0) has set num_conflicts to 0 before it.  An announce tick  *)
(* whose announce is not yet the ANNOUNCE_NUM-th leaves the client in      *)
(* ANNOUNCING with sent_num incremented and ttw = the announce interval in *)
(* ticks; the tick that sends the ANNOUNCE_NUM-th announce leaves it in    *)
(* ONGOING with sent_num = 0 and ttw = the periodic defend interval in     *)
(* ticks.  num_conflicts is 0 after every announce tick that started in    *)
(* ANNOUNCE_WAIT.                                                          *)
(***************************************************************************)
C25_AnnounceTickCountsUntilLast ==
  [][ \A n \in Netifs : \A a \in Acds :
        (op' = "acd_tmr" /\ AnnounceTick(acd[a]) /\ OnList(n, a))
        => LET es == EventsOf(out', a)
           IN  /\ SendSeqOf(out', a) = <<"announce">>
               /\ es[1].kind = "announce"
               /\ es[1].at.state = ACD_STATE_ANNOUNCING
               /\ acd[a].state = ACD_STATE_ANNOUNCE_WAIT
                  => /\ acd[a].sent_num = 0
                     /\ es[1].at.num_conflicts = 0
                     /\ acd'[a].num_conflicts = 0
               /\ IF acd[a].sent_num + 1 < cfg.ANNOUNCE_NUM
                  THEN /\ acd'[a].state = ACD_STATE_ANNOUNCING
                       /\ acd'[a].sent_num = acd[a].sent_num + 1
                       /\ LeastTicksFor(acd'[a].ttw, cfg.ANNOUNCE_INTERVAL_MS)
                  ELSE /\ acd'[a].state = ACD_STATE_ONGOING
                       /\ acd'[a].sent_num = 0
                       /\ LeastTicksFor(acd'[a].ttw, cfg.PERIODIC_DEFEND_INTERVAL_MS)
    ]_vars

\* the first of two announces has been sent: ANNOUNCING, one announce
\* counted, two ticks to the next
C25_Witness ==
  /\ op = "acd_tmr"
  /\ SendSeq(out) = <<"announce">>
  /\ out[1].at.state = ACD_STATE_ANNOUNCING
  /\ acd["acd1"].state = ACD_STATE_ANNOUNCING
  /\ acd["acd1"].sent_num = 1
  /\ acd["acd1"].ttw = 2
  /\ acd["acd1"].num_conflicts = 0

\* the changes of state the table of transitions names: call, state before,
\* state after
TabledChange(call, from, to) ==
  \/ call = "acd_start" /\ to = ACD_STATE_PROBE_WAIT
  \/ /\ call = "acd_tmr"
     /\ \/ /\ from \in {ACD_STATE_PROBE_WAIT, ACD_STATE_PROBING}
           /\ to \in {ACD_STATE_PROBING, ACD_STATE_ANNOUNCE_WAIT}
        \/ from = ACD_STATE_ANNOUNCE_WAIT /\ to = ACD_STATE_ANNOUNCING
        \/ /\ from \in {ACD_STATE_ANNOUNCE_WAIT, ACD_STATE_ANNOUNCING}
           /\ to = ACD_STATE_ONGOING
        \/ from = ACD_STATE_RATE_LIMIT /\ to = ACD_STATE_OFF
  \/ /\ call = "acd_arp_reply"
     /\ \/ /\ from \in ProbePhase \cup {ACD_STATE_ANNOUNCING, ACD_STATE_ONGOING}
           /\ to \in {ACD_STATE_OFF, ACD_STATE_RATE_LIMIT}
        \/ from = ACD_STATE_PASSIVE_ONGOING /\ to = ACD_STATE_OFF
  \/ /\ call = "acd_netif_ip_addr_changed"
     /\ from \in {ACD_STATE_ANNOUNCING, ACD_STATE_ONGOING}
     /\ to = ACD_STATE_PASSIVE_ONGOING
  \/ /\ call \in {"acd_stop", "acd_network_changed_link_down"}
     /\ to = ACD_STATE_OFF

\* the change of state the table leaves out: the address change stops a
\* client that is probing, waiting to announce or rate-limited
AddressChangeStops(call, from, to) ==
  /\ call = "acd_netif_ip_addr_changed"
  /\ from \in ProbePhase \cup {ACD_STATE_RATE_LIMIT}
  /\ to = ACD_STATE_OFF

(***************************************************************************)
(* C26 (Spec), as stated.  Every change of a client's state is one of:     *)
(* acd_start -> PROBE_WAIT; acd_tmr: PROBE_WAIT/PROBING -> PROBING or      *)
(* ANNOUNCE_WAIT, ANNOUNCE_WAIT -> ANNOUNCING, ANNOUNCE_WAIT/ANNOUNCING -> *)
(* ONGOING, RATE_LIMIT -> OFF; a conflict in acd_arp_reply: the probing    *)
(* states and ANNOUNCING/ONGOING -> OFF or RATE_LIMIT, PASSIVE_ONGOING ->  *)
(* OFF; acd_netif_ip_addr_changed: ANNOUNCING/ONGOING -> PASSIVE_ONGOING;  *)
(* acd_stop and link down -> OFF.                                          *)
(***************************************************************************)
C26_Original_OnlyTabledTransitions ==
  [][ \A a \in Acds :
        acd'[a].state # acd[a].state
        => TabledChange(op', acd[a].state, acd'[a].state)
    ]_vars

(***************************************************************************)
(* C26 (Spec), amended.  Every change of a client's state is one of the    *)
(* changes listed above or the change of a client in PROBE_WAIT, PROBING,  *)
(* ANNOUNCE_WAIT or RATE_LIMIT to OFF by acd_netif_ip_addr_changed.  In    *)
(* particular ONGOING is entered only by acd_tmr from ANNOUNCE_WAIT or     *)
(* ANNOUNCING, and PASSIVE_ONGOING only by acd_netif_ip_addr_changed from  *)
(* ANNOUNCING or ONGOING.                                                  *)
(***************************************************************************)
C26_OnlyTabledTransitionsAndAddressChangeStop ==
  [][ \A a \in Acds :
        acd'[a].state # acd[a].state
        => /\ \/ TabledChange(op', acd[a].state, acd'[a].state)
              \/ AddressChangeStops(op', acd[a].state, acd'[a].state)
           /\ acd'[a].state = ACD_STATE_ONGOING
              => /\ op' = "acd_tmr"
                 /\ acd[a].state \in {ACD_STATE_ANNOUNCE_WAIT, ACD_STATE_ANNOUNCING}
           /\ acd'[a].state = ACD_STATE_PASSIVE_ONGOING
              => /\ op' = "acd_netif_ip_addr_changed"
                 /\ acd[a].state \in {ACD_STATE_ANNOUNCING, ACD_STATE_ONGOING}
    ]_vars

\* an address change has stopped a rate-limited client: OFF, declined, the
\* rate limit countdown still in ttw
C26_Witness ==
  /\ op = "acd_netif_ip_addr_changed"
  /\ CallbackSeq(out, "acd1") = <<ACD_DECLINE>>
  /\ acd["acd1"].state = ACD_STATE_OFF
  /\ acd["acd1"].num_conflicts >= cfg.MAX_CONFLICTS
  /\ acd["acd1"].ttw > 50

C28_ConflictCountChangesOnlyByRestartAndAnnouncing ==
  [][ \A a \in Acds :
        /\ acd'[a].num_conflicts # acd[a].num_conflicts
           => \/ /\ op' = "acd_arp_reply"
                 /\ acd'[a].num_conflicts = acd[a].num_conflicts + 1
                 /\ Len(CallbackSeq(out', a)) >= 1
                 /\ CallbackSeq(out', a)[1] = ACD_DECLINE
                 /\ acd'[a].state \in {ACD_STATE_OFF, ACD_STATE_RATE_LIMIT}
              \/ /\ op' = "acd_tmr"
                 /\ acd[a].state = ACD_STATE_ANNOUNCE_WAIT
                 /\ acd'[a].state \in {ACD_STATE_ANNOUNCING, ACD_STATE_ONGOING}
                 /\ acd'[a].num_conflicts = 0
        /\ ( \/ op' \in {"acd_add", "acd_remove", "acd_start", "acd_stop",
                          "acd_network_changed_link_down",
                          "acd_netif_ip_addr_changed"}
             \/ op' = "acd_tmr" /\ acd[a].state # ACD_STATE_ANNOUNCE_WAIT
             \/ op' = "acd_arp_reply" /\ EventsOf(out', a) = <<>> )
           => acd'[a].num_conflicts = acd[a].num_conflicts
    ]_vars

\* a client that has met three conflicts is started again: PROBE_WAIT with
\* the count still 3
C28_Witness ==
  /\ op = "acd_start"
  /\ acd["acd1"].state = ACD_STATE_PROBE_WAIT
  /\ acd["acd1"].num_conflicts = 3

(***************************************************************************)
(* C29 (Spec).  Every acd_tmr call decrements lastconflict by exactly 1    *)
(* when it is nonzero and leaves it at 0 otherwise, for every registered   *)
(* client whatever its state.  Only a defended conflict sets it, to the    *)
(* defend interval in ticks, and only acd_start clears it; so after a      *)
(* defended conflict it is > 0 for exactly that many ticks.  A conflict    *)
(* for a client in ANNOUNCING or ONGOING whose lastconflict is 0 (never    *)
(* set, or run down to 0 again) is defended: one announce, no callback, no *)
(* change of state, lastconflict set again.                                *)
(***************************************************************************)
C29_CooldownRunsDownThenDefendsAgain ==
  [][ \A n \in Netifs : \A a \in Acds :
        OnList(n, a)
        => /\ op' = "acd_tmr"
              => acd'[a].lastconflict =
                   IF acd[a].lastconflict > 0 THEN acd[a].lastconflict - 1 ELSE 0
           /\ op' = "acd_start" => acd'[a].lastconflict = 0
           /\ op' \notin {"acd_tmr", "acd_start", "acd_arp_reply"}
              => acd'[a].lastconflict = acd[a].lastconflict
           /\ op' = "acd_arp_reply"
              => IF /\ acd[a].state \in {ACD_STATE_ANNOUNCING, ACD_STATE_ONGOING}
                    /\ acd[a].lastconflict = 0
                    /\ EventsOf(out', a) # <<>>
                 THEN /\ SendSeqOf(out', a) = <<"announce">>
                      /\ CallbackSeq(out', a) = <<>>
                      /\ acd'[a].lastconflict * cfg.ACD_TMR_INTERVAL
                           = cfg.DEFEND_INTERVAL * 1000
                      /\ acd'[a] = [acd[a] EXCEPT !.lastconflict = acd'[a].lastconflict]
                 ELSE acd'[a].lastconflict = acd[a].lastconflict
    ]_vars

\* the ninth tick after a defended conflict: the address is still held and
\* one tick of the cooldown is left
C29_Witness ==
  /\ op = "acd_tmr"
  /\ OnList("en1", "acd1")
  /\ acd["acd1"].state = ACD_STATE_ONGOING
  /\ acd["acd1"].lastconflict = 1

(***************************************************************************)
(* C30 (SpecOddTick).  Every tick count a call loads from a configured     *)
(* interval is that interval converted by ceiling division by the tick     *)
(* interval: the count t for ms milliseconds satisfies                     *)
(* (t-1)*interval < ms <= t*interval, 0 for 0 ms.  This is read off the    *)
(* fields: ttw on entering RATE_LIMIT (rate limit interval), lastconflict  *)
(* after a defence (defend interval), ttw on entering ANNOUNCE_WAIT        *)
(* (announce wait), after an announce that is not the last (announce       *)
(* interval), on entering ONGOING and after a periodic probe (periodic     *)
(* defend interval), after a probe that is not the last (between probe     *)
(* minimum and probe maximum) and after acd_start (below the probe wait).  *)
(***************************************************************************)
C30_EveryIntervalIsCeilingOfMilliseconds ==
  [][ \A a \in Acds :
        LET s == acd[a]
            t == acd'[a]
        IN  /\ (t.state = ACD_STATE_RATE_LIMIT /\ s.state # ACD_STATE_RATE_LIMIT)
               => LeastTicksFor(t.ttw, cfg.RATE_LIMIT_INTERVAL * 1000)
            /\ (op' = "acd_arp_reply" /\ t.lastconflict # s.lastconflict)
               => LeastTicksFor(t.lastconflict, cfg.DEFEND_INTERVAL * 1000)
            /\ (t.state = ACD_STATE_ANNOUNCE_WAIT /\ s.state # ACD_STATE_ANNOUNCE_WAIT)
               => LeastTicksFor(t.ttw, cfg.ANNOUNCE_WAIT_MS)
            /\ (op' = "acd_tmr" /\ t.state = ACD_STATE_ANNOUNCING
                  /\ SendSeqOf(out', a) # <<>>)
               => LeastTicksFor(t.ttw, cfg.ANNOUNCE_INTERVAL_MS)
            /\ (op' = "acd_tmr" /\ t.state = ACD_STATE_ONGOING
                  /\ SendSeqOf(out', a) # <<>>
                  /\ cfg.PERIODIC_DEFEND_INTERVAL_MS # UNDEFINED)
               => LeastTicksFor(t.ttw, cfg.PERIODIC_DEFEND_INTERVAL_MS)
            /\ (op' = "acd_tmr" /\ t.state = ACD_STATE_PROBING
                  /\ SendSeqOf(out', a) # <<>>)
               => /\ t.ttw * cfg.ACD_TMR_INTERVAL >= cfg.PROBE_MIN_MS
                  /\ (t.ttw - 1) * cfg.ACD_TMR_INTERVAL < cfg.PROBE_MAX_MS
            /\ (op' = "acd_start" /\ t.ttw > 0)
               => (t.ttw - 1) * cfg.ACD_TMR_INTERVAL < cfg.PROBE_WAIT_MS
    ]_vars

\* the number the claim names: octets 5, 3, 2 and 4 of the interface's
\* hardware address as one 32-bit number, plus k
HardwareAddressNumber(n, k) ==
  hwaddr_octets[n][6] * 16777216 + hwaddr_octets[n][4] * 65536
  + hwaddr_octets[n][3] * 256 + hwaddr_octets[n][5] + k

\* the waits are the function of the hardware address and sent_num, and an
\* acd_tmr call has one outcome (fields, sends, callbacks)
WaitsAreFunctionOfHardwareAddress ==
  \A n \in Netifs : \A a \in Acds :
    OnList(n, a)
    => /\ op' = "acd_start"
          => acd'[a].ttw = ACD_RANDOM_PROBE_WAIT(HardwareAddressNumber(n, 0))
       /\ ( /\ op' = "acd_tmr"
            /\ acd[a].state \in {ACD_STATE_PROBE_WAIT, ACD_STATE_PROBING}
            /\ acd'[a].state = ACD_STATE_PROBING
            /\ SendSeqOf(out', a) # <<>> )
          => acd'[a].ttw =
               ACD_RANDOM_PROBE_INTERVAL(HardwareAddressNumber(n, acd'[a].sent_num))
       /\ \A st1, st2 \in TmrNetifs(1, {[acd |-> acd, ev |-> <<>>]}) :
            /\ st1.acd = st2.acd
            /\ SendSeqOf(st1.ev, a) = SendSeqOf(st2.ev, a)
            /\ CallbackSeq(st1.ev, a) = CallbackSeq(st2.ev, a)

C32_RestartClientDeliveredInOffAndLast ==
  [][ \A a \in Acds : \A i \in 1..Len(out') :
        ( /\ op' \in {"acd_tmr", "acd_arp_reply"}
          /\ out'[i].kind = "callback" /\ out'[i].acd = a )
        => LET e == out'[i]
               started == i < Len(out') /\ out'[i + 1].kind = "acd_start"
           IN  /\ e.what = ACD_RESTART_CLIENT
                  => /\ e.at.state = ACD_STATE_OFF
                     /\ IF started
                        THEN /\ acd'[a] = out'[i + 1].at
                             /\ acd'[a].state = ACD_STATE_PROBE_WAIT
                             /\ acd'[a].ipaddr = out'[i + 1].ip
                        ELSE acd'[a] = e.at
               /\ (e.what = ACD_DECLINE /\ e.at.num_conflicts # acd[a].num_conflicts)
                  => /\ e.at = [acd[a] EXCEPT !.num_conflicts = @ + 1]
                     /\ e.at.state # ACD_STATE_OFF
                     /\ started
                        => acd'[a].state \in {ACD_STATE_OFF, ACD_STATE_RATE_LIMIT}
    ]_vars

\* a probe conflict: DECLINE, then RESTART_CLIENT from inside which the
\* callback function started the client again; the client is in PROBE_WAIT
\* for the new address when acd_arp_reply returns
C32_Witness ==
  /\ op = "acd_arp_reply"
  /\ Len(out) = 5
  /\ out[3].kind = "callback" /\ out[3].what = ACD_DECLINE
  /\ out[3].at.state = ACD_STATE_PROBING
  /\ out[4].kind = "callback" /\ out[4].what = ACD_RESTART_CLIENT
  /\ out[4].at.state = ACD_STATE_OFF
  /\ out[5].kind = "acd_start" /\ out[5].ip # out[4].at.ipaddr
  /\ acd["acd1"].state = ACD_STATE_PROBE_WAIT
  /\ acd["acd1"].ipaddr = out[5].ip
  /\ acd["acd1"].num_conflicts = 1

(***************************************************************************)
(* C33 (Spec).  In every state a registered client reaches in OFF          *)
(* (stopped, link down, restarted, retreated from passive mode, stopped by *)
(* the address change or by the end of the rate limit), an acd_tmr call    *)
(* and an acd_arp_reply call with any frame send nothing for it, call no   *)
(* callback, hand nothing to the sink and leave it in OFF, however many    *)
(* such calls follow one another.  acd_arp_reply leaves every field        *)
(* unchanged; acd_tmr still counts ttw and lastconflict down and changes   *)
(* nothing else.                                                           *)
(***************************************************************************)
C33_OffStaysSilentUntilStart ==
  \A n \in Netifs : \A a \in Acds :
    (OnList(n, a) /\ acd[a].state = ACD_STATE_OFF)
    => /\ \A st \in TmrNetifs(1, {[acd |-> acd, ev |-> <<>>]}) :
            /\ EventsOf(st.ev, a) = <<>>
            /\ st.acd[a] = [acd[a] EXCEPT
                              !.ttw = IF @ > 0 THEN @ - 1 ELSE 0,
                              !.lastconflict = IF @ > 0 THEN @ - 1 ELSE 0]
       /\ \A hdr \in Hdrs(n) :
            \A st \in ArpLoop(n, AcdList(n), hdr, [acd |-> acd, ev |-> <<>>]) :
              /\ EventsOf(st.ev, a) = <<>>
              /\ st.acd[a] = acd[a]

\* the rate limit has ended, RESTART_CLIENT was delivered, and later ticks
\* and a frame claiming the client's address have passed: still OFF, and
\* the last call handed nothing out
C33_Witness ==
  /\ op = "acd_arp_reply"
  /\ out = <<>>
  /\ OnList("en1", "acd1")
  /\ acd["acd1"].state = ACD_STATE_OFF
  /\ acd["acd1"].ttw = 0
  /\ acd["acd1"].num_conflicts >= cfg.MAX_CONFLICTS
  /\ acd["acd1"].ipaddr = IpRoutable

(***************************************************************************)
(* C34 (SpecRand; MAX_CONFLICTS = 2).  In every reachable state a client   *)
(* in ANNOUNCING, ONGOING or PASSIVE_ONGOING has num_conflicts = 0.  So,   *)
(* MAX_CONFLICTS being above 1, a restart of a client in ANNOUNCING or     *)
(* ONGOING (a conflict while lastconflict > 0) ends in OFF with            *)
(* num_conflicts = 1 and the callbacks DECLINE, RESTART_CLIENT, and never  *)
(* in RATE_LIMIT.                                                          *)
(***************************************************************************)
C34_NoConflictsCountedWhileAddressHeld ==
  /\ \A a \in Acds :
       acd[a].state \in {ACD_STATE_ANNOUNCING, ACD_STATE_ONGOING,
                         ACD_STATE_PASSIVE_ONGOING}
       => acd[a].num_conflicts = 0
  /\ \A n \in Netifs : \A a \in Acds : \A hdr \in Hdrs(n) :
       ( /\ cfg.MAX_CONFLICTS > 1
         /\ acd[a].state \in {ACD_STATE_ANNOUNCING, ACD_STATE_ONGOING}
         /\ RestartCase(n, a, hdr) )
       => \A st \in ArpLoop(n, AcdList(n), hdr, [acd |-> acd, ev |-> <<>>]) :
            /\ st.acd[a].state = ACD_STATE_OFF
            /\ st.acd[a].num_conflicts = 1
            /\ CallbackSeq(st.ev, a) = <<ACD_DECLINE, ACD_RESTART_CLIENT>>

\* a second conflict within the defend interval has restarted a client that
\* was announcing: OFF, one conflict counted, DECLINE and RESTART_CLIENT
C34_Witness ==
  /\ op = "acd_arp_reply"
  /\ cfg.MAX_CONFLICTS = 2
  /\ CallbackSeq(out, "acd1") = <<ACD_DECLINE, ACD_RESTART_CLIENT>>
  /\ out[1].at.state = ACD_STATE_ANNOUNCING
  /\ out[1].at.num_conflicts = 0
  /\ acd["acd1"].state = ACD_STATE_OFF
  /\ acd["acd1"].num_conflicts = 1
  /\ acd["acd1"].lastconflict > 0

(***************************************************************************)
(* C35 (SpecPair).  acd_netif_ip_addr_changed changes no client and calls  *)
(* no callback unless the old address is link-local, the new address is    *)
(* not link-local and neither is the any-address.  When they are, it       *)
(* changes only registered clients of that interface whose address is the  *)
(* old address, and nothing but their state.  Such a client in RATE_LIMIT  *)
(* is stopped with DECLINE alone, and the RESTART_CLIENT that the end of   *)
(* its rate limit would have delivered is not delivered by acd_tmr,        *)
(* whatever is left of its countdown.                                      *)
(***************************************************************************)
C35_AddressChangeTouchesOnlyOldAddressClients ==
  [][ \A n \in Netifs : \A old_addr \in Ips : \A new_addr \in Ips :
        ( /\ op' = "acd_netif_ip_addr_changed"
          /\ IpAddrChanged(n, old_addr, new_addr) )
        => /\ ~( /\ ip4_addr_islinklocal(old_addr) /\ ~ip4_addr_islinklocal(new_addr)
                 /\ ~ip4_addr_isany_val(old_addr) /\ ~ip4_addr_isany_val(new_addr) )
              => (acd' = acd /\ out' = <<>>)
           /\ \A a \in Acds :
                /\ (~OnList(n, a) \/ acd[a].ipaddr # old_addr)
                   => (acd'[a] = acd[a] /\ EventsOf(out', a) = <<>>)
                /\ acd'[a] = [acd[a] EXCEPT !.state = acd'[a].state]
                /\ (acd'[a] # acd[a] /\ acd[a].state = ACD_STATE_RATE_LIMIT)
                   => /\ acd'[a].state = ACD_STATE_OFF
                      /\ CallbackSeq(out', a) = <<ACD_DECLINE>>
                      /\ \A k \in 0..acd'[a].ttw :
                           \A res \in TmrClientOutcomes(n, a, [acd'[a] EXCEPT !.ttw = k]) :
                             res.ev = <<>> /\ res.s.state = ACD_STATE_OFF
    ]_vars

\* the address change has stopped a rate-limited client with DECLINE, 60
\* ticks of its rate limit still to go
C35_Witness ==
  /\ op = "acd_netif_ip_addr_changed"
  /\ Len(out) = 1
  /\ out[1].kind = "callback" /\ out[1].what = ACD_DECLINE
  /\ out[1].at.ipaddr = IpLinkLocal
  /\ \E a \in Acds : /\ out[1].acd = a
                      /\ acd[a].state = ACD_STATE_OFF
                      /\ acd[a].num_conflicts = cfg.MAX_CONFLICTS
                      /\ acd[a].ttw = RATE_LIMIT_TICKS

(***************************************************************************)
(* C36 (Spec).  For a registered client in ANNOUNCING, ONGOING or          *)
(* PASSIVE_ONGOING, an ARP probe of a foreign station for the client's     *)
(* address (sender IP 0.0.0.0, target IP = the address, sender MAC not the *)
(* interface's) is no conflict: acd_arp_reply leaves every field of the    *)
(* client unchanged, sends no announce, calls no callback and hands        *)
(* nothing to the sink.  (The address of a started client is never         *)
(* 0.0.0.0.)                                                               *)
(***************************************************************************)
C36_ForeignProbeIsNoConflictOnceAnnouncing ==
  \A n \in Netifs : \A a \in Acds :
    ( /\ OnList(n, a)
      /\ acd[a].state \in {ACD_STATE_ANNOUNCING, ACD_STATE_ONGOING,
                            ACD_STATE_PASSIVE_ONGOING} )
    => \A hdr \in Hdrs(n) :
         ( /\ ip4_addr_isany_val(hdr.sipaddr)
           /\ hdr.dipaddr = acd[a].ipaddr
           /\ hdr.shwaddr # hwaddr[n] )
         => \A st \in ArpLoop(n, AcdList(n), hdr, [acd |-> acd, ev |-> <<>>]) :
              /\ st.acd[a] = acd[a]
              /\ st.ev = <<>>

\* a frame has arrived for a client in passive mode that had defended its
\* address before: nothing was handed out and the client stays as it was
C36_Witness ==
  /\ op = "acd_arp_reply"
  /\ out = <<>>
  /\ OnList("en1", "acd1")
  /\ acd["acd1"].state = ACD_STATE_PASSIVE_ONGOING
  /\ acd["acd1"].lastconflict > 0
  /\ acd["acd1"].ipaddr = IpLinkLocal

(***************************************************************************)
(* C37 (SpecReg).  acd_arp_reply(netif, hdr) examines every client on the  *)
(* list of netif and no other: each client of the list for which the frame *)
(* is a conflict is handled, whatever was done for the clients before it;  *)
(* a client of the list whose address is neither the sender IP nor the     *)
(* target IP of the frame keeps every field and gets no callback, send or  *)
(* sink call; so does every client on the list of another interface or on  *)
(* no list, even one with the address the conflict is about.               *)
(***************************************************************************)
C37_FrameExaminedForClientsOfItsInterfaceOnly ==
  \A n \in Netifs : \A hdr \in Hdrs(n) :
    \A st \in ArpLoop(n, AcdList(n), hdr, [acd |-> acd, ev |-> <<>>]) :
      \A b \in Acds :
        /\ OnList(n, b)
           => (IsConflict(n, acd[b], hdr) <=> EventsOf(st.ev, b) # <<>>)
        /\ (~OnList(n, b) \/ acd[b].ipaddr \notin {hdr.sipaddr, hdr.dipaddr})
           => /\ st.acd[b] = acd[b]
              /\ EventsOf(st.ev, b) = <<>>

\* two clients probe the same address, one on each interface; a frame on
\* en1 has restarted the client of en1 and left the client of en2 alone
C37_Witness ==
  /\ op = "acd_arp_reply"
  /\ \E a \in Acds : \E b \in Acds \ {a} :
       /\ OnList("en1", a) /\ OnList("en2", b)
       /\ acd[a].ipaddr = acd[b].ipaddr
       /\ acd[a].state = ACD_STATE_OFF /\ acd[a].num_conflicts = 1
       /\ CallbackSeq(out, a) = <<ACD_DECLINE, ACD_RESTART_CLIENT>>
       /\ acd[b].state = ACD_STATE_PROBE_WAIT /\ acd[b].num_conflicts = 0
       /\ EventsOf(out, b) = <<>>

(***************************************************************************)
(* C38 (Spec).  A client in PASSIVE_ONGOING, and so one that was demoted   *)
(* while ANNOUNCING with announces still to send (sent_num > 0), sends     *)
(* nothing and gets no ACD_IP_OK in any call, and never goes to ONGOING.   *)
(* acd_tmr leaves it in PASSIVE_ONGOING and hands nothing out for it,      *)
(* also on the tick on which its ttw reaches 0.  It leaves PASSIVE_ONGOING *)
(* only by a conflict in acd_arp_reply (OFF, DECLINE), by acd_stop or link *)
(* down (OFF) or by acd_start (PROBE_WAIT).                                *)
(***************************************************************************)
C38_PassiveClientNeverAnnouncesAgain ==
  [][ \A a \in Acds :
        acd[a].state = ACD_STATE_PASSIVE_ONGOING
        => /\ SendSeqOf(out', a) = <<>>
           /\ ~IpOkIn(out', a)
           /\ acd'[a].state # ACD_STATE_ONGOING
           /\ op' = "acd_tmr"
              => /\ acd'[a].state = ACD_STATE_PASSIVE_ONGOING
                 /\ acd'[a].sent_num = acd[a].sent_num
                 /\ EventsOf(out', a) = <<>>
           /\ acd'[a].state # ACD_STATE_PASSIVE_ONGOING
              => \/ /\ op' = "acd_arp_reply"
                    /\ acd'[a].state = ACD_STATE_OFF
                    /\ CallbackSeq(out', a) = <<ACD_DECLINE>>
                 \/ /\ op' \in {"acd_stop", "acd_network_changed_link_down"}
                    /\ acd'[a].state = ACD_STATE_OFF
                 \/ /\ op' = "acd_start"
                    /\ acd'[a].state = ACD_STATE_PROBE_WAIT
    ]_vars

\* a client demoted after the first of its two announces: the tick on which
\* the second announce was due has passed, nothing was sent
C38_Witness ==
  /\ op = "acd_tmr"
  /\ out = <<>>
  /\ OnList("en1", "acd1")
  /\ acd["acd1"].state = ACD_STATE_PASSIVE_ONGOING
  /\ acd["acd1"].sent_num = 1
  /\ acd["acd1"].ttw = 0

(***************************************************************************)
(* C39 (SpecReentrant; PROBE_NUM and ANNOUNCE_NUM are 1 or more).  In      *)
(* every reachable state sent_num is bounded by the phase: it is 0 in      *)
(* PROBE_WAIT, ANNOUNCE_WAIT and ONGOING, 1 <= sent_num < PROBE_NUM in     *)
(* PROBING and 1 <= sent_num < ANNOUNCE_NUM in ANNOUNCING (so with one     *)
(* probe no client is left in PROBING, with one announce none in           *)
(* ANNOUNCING).                                                            *)
(***************************************************************************)
C39_SentNumBoundedByPhase ==
  \A a \in Acds :
    LET s == acd[a]
    IN  /\ cfg.PROBE_NUM >= 1 /\ cfg.ANNOUNCE_NUM >= 1
        /\ s.state \in {ACD_STATE_PROBE_WAIT, ACD_STATE_ANNOUNCE_WAIT, ACD_STATE_ONGOING}
           => s.sent_num = 0
        /\ s.state = ACD_STATE_PROBING
           => (1 <= s.sent_num /\ s.sent_num < cfg.PROBE_NUM)
        /\ s.state = ACD_STATE_ANNOUNCING
           => (1 <= s.sent_num /\ s.sent_num < cfg.ANNOUNCE_NUM)

\* the second of three probes has just been sent
C39_Witness ==
  /\ op = "acd_tmr"
  /\ SendSeq(out) = <<"probe">>
  /\ cfg.PROBE_NUM = 3
  /\ acd["acd1"].state = ACD_STATE_PROBING
  /\ acd["acd1"].sent_num = 2

\* the clients reached from head by the links nx, at most fuel of them
RECURSIVE ListIn(_, _, _)
ListIn(nx, head, fuel) ==
  IF head = NULL \/ fuel = 0 THEN <<>> ELSE <<head>> \o ListIn(nx, nx[head], fuel - 1)

\* the list l without the client a, in the same order
ListWithout(l, a) == SelectSeq(l, LAMBDA x : x # a)

\* the list of interface n is a registry: it ends, and no client is on it
\* twice
IsRegistry(nx, head) ==
  LET l == ListIn(nx, head, Cardinality(Acds) + 1)
  IN  /\ Len(l) <= Cardinality(Acds)
      /\ \A i, j \in 1..Len(l) : l[i] = l[j] => i = j

====
